---- MODULE Spec2Model ----
(***************************************************************************)
(* Portfolio valuation services of the repository:                         *)
(*   microservices/getPortfolioHighLT.py  (Flask service, four ETFs)       *)
(*   microservices/getPortfolioLowLT.py   (Flask service, four ETFs)       *)
(*   microservices/getCandlestickinfo.py  (Flask service, OHLC candles)    *)
(*                                                                         *)
(* Dates are day numbers (the CSV files hold one row per trading day).     *)
(* Floating-point values are modelled by exact rationals [n, d] extended   *)
(* with the IEEE specials: d = 0 and n = 0 is NaN, d = 0 and n = 1 is      *)
(* +Infinity, d = 0 and n = -1 is -Infinity.                               *)
(***************************************************************************)
EXTENDS Integers, Sequences, FiniteSets, TLC

\* Last calendar day the reference tables may hold a row for; requests name
\* days 0 .. MaxDay + 1, so one day before and one day after the data.
MaxDay == 4

(***************************************************************************)
(* Exact arithmetic standing for Python/numpy floats.                      *)
(***************************************************************************)
Abs(x) == IF x < 0 THEN -x ELSE x

Sgn(x) == IF x > 0 THEN 1 ELSE IF x < 0 THEN -1 ELSE 0

RECURSIVE GCD(_, _)
GCD(a, b) == IF b = 0 THEN a ELSE GCD(b, a % b)

Mk(n, d) ==
    IF d = 0 THEN [n |-> Sgn(n), d |-> 0]
    ELSE LET g == GCD(Abs(n), Abs(d))
         IN  [n |-> (Sgn(d) * n) \div g, d |-> Abs(d) \div g]

R(k) == [n |-> k, d |-> 1]

NaN == [n |-> 0, d |-> 0]

PosInf == [n |-> 1, d |-> 0]

IsNaN(a) == a.d = 0 /\ a.n = 0

IsFinite(a) == a.d # 0

RNeg(a) == [n |-> -a.n, d |-> a.d]

RAdd(a, b) ==
    IF IsNaN(a) \/ IsNaN(b) THEN NaN
    ELSE IF a.d = 0 /\ b.d = 0 THEN (IF a.n = b.n THEN a ELSE NaN)
    ELSE IF a.d = 0 THEN a
    ELSE IF b.d = 0 THEN b
    ELSE Mk(a.n * b.d + b.n * a.d, a.d * b.d)

RSub(a, b) == RAdd(a, RNeg(b))

RMul(a, b) == IF IsNaN(a) \/ IsNaN(b) THEN NaN ELSE Mk(a.n * b.n, a.d * b.d)

RInv(b) ==
    IF IsNaN(b) THEN NaN
    ELSE IF b.d = 0 THEN R(0)
    ELSE IF b.n = 0 THEN PosInf
    ELSE Mk(b.d, b.n)

RDiv(a, b) == RMul(a, RInv(b))

RECURSIVE FracLt(_, _, _, _)
\* an / ad < bn / bd for positive denominators, by integer parts and then
\* the reciprocals of the fractional parts (no product is formed)
FracLt(an, ad, bn, bd) ==
    LET qa == an \div ad
        qb == bn \div bd
        ra == an % ad
        rb == bn % bd
    IN  IF qa # qb THEN qa < qb
        ELSE IF ra = 0 THEN rb > 0
        ELSE IF rb = 0 THEN FALSE
        ELSE FracLt(bd, rb, ad, ra)

\* Comparisons are false as soon as one side is NaN, as for floats.
RLt(a, b) ==
    /\ ~IsNaN(a) /\ ~IsNaN(b)
    /\ IF a.d = 0 /\ b.d = 0 THEN a.n < b.n
       ELSE IF a.d = 0 THEN a.n < 0
       ELSE IF b.d = 0 THEN b.n > 0
       ELSE FracLt(a.n, a.d, b.n, b.d)

REq(a, b) == ~IsNaN(a) /\ ~IsNaN(b) /\ a = b

RLe(a, b) == RLt(a, b) \/ REq(a, b)

RAbs(a) == [n |-> Abs(a.n), d |-> a.d]

\* a sequence given as a function over 1..n, evaluated once into a tuple
Eager(s) == s \o <<>>

RECURSIVE SumSeq(_)
SumSeq(s) == IF s = <<>> THEN R(0) ELSE RAdd(SumSeq(SubSeq(s, 1, Len(s) - 1)), s[Len(s)])

RECURSIVE SetToSeq(_)
SetToSeq(S) == IF S = {} THEN <<>> ELSE LET x == CHOOSE y \in S : TRUE IN <<x>> \o SetToSeq(S \ {x})

\* sum(d.values()) of a Python dict d
SumValues(dict) == LET ks == SetToSeq(DOMAIN dict) IN SumSeq(Eager([i \in 1..Len(ks) |-> dict[ks[i]]]))

\* d.get(k, default)
DictGet(dict, k, default) == IF k \in DOMAIN dict THEN dict[k] ELSE default

(***************************************************************************)
(* Reference data.  The CSV files are not part of the sources; the model   *)
(* loads small tables with the files' layout: one row per trading day (no  *)
(* row on every third day), strictly increasing dates and positive prices: *)
(* one instrument rising, one dipping and recovering, one falling, one     *)
(* flat.                                                                   *)
(***************************************************************************)
Services == {"HighLT", "LowLT"}

\* the instrument list each service loops over
ETFS(svc) == IF svc = "HighLT" THEN <<"SPY", "GBTC", "BRK-B", "VUG">>
             ELSE <<"SPY", "BND", "VTIP", "VXUS">>

ETFSet(svc) == {ETFS(svc)[i] : i \in 1..4}

TradingDays == {d \in 1..MaxDay : d % 3 # 0}

PriceShapes == << <<2, 3, 4, 6, 8, 12, 12, 12>>,
                  <<6, 3, 4, 6, 2, 6, 3, 6>>,
                  <<12, 8, 6, 4, 3, 2, 2, 2>>,
                  <<4, 4, 4, 4, 4, 4, 4, 4>> >>

CsvPrice(i, d) == PriceShapes[((i - 1) % 4) + 1][d]

RECURSIVE SortedSeq(_)
SortedSeq(S) ==
    IF S = {} THEN <<>>
    ELSE LET m == CHOOSE x \in S : \A y \in S : x <= y IN <<m>> \o SortedSeq(S \ {m})

\* pd.read_csv + to_datetime: the table, one record per row
ReadCsv(svc) ==
    LET days == SortedSeq(TradingDays)
    IN  Eager([k \in 1..Len(days) |->
            [Date |-> days[k],
             px   |-> [e \in ETFSet(svc) |->
                         LET i == CHOOSE j \in 1..4 : ETFS(svc)[j] = e
                         IN  CsvPrice(i, days[k])]]])

SeqMin(s) == CHOOSE x \in {s[i] : i \in 1..Len(s)} : \A j \in 1..Len(s) : x <= s[j]

SeqMax(s) == CHOOSE x \in {s[i] : i \in 1..Len(s)} : \A j \in 1..Len(s) : x >= s[j]

DateColumn(tab) == Eager([i \in 1..Len(tab) |-> tab[i].Date])

(***************************************************************************)
(* State.                                                                  *)
(***************************************************************************)
VARIABLES
    ETF_DF,     \* per service: the global reference table
    MIN_DATE,   \* per service: global minimum date
    MAX_DATE,   \* per service: global maximum date
    request,    \* the request being answered, or NoRequest
    result,     \* what process_request_data returned for it (or NoResult)
    response,   \* the HTTP response of the handler (or NoResponse)
    calls       \* the functions the handler ran to their end, in order, with their row count

vars == <<ETF_DF, MIN_DATE, MAX_DATE, request, result, response, calls>>

NoRequest == [service |-> "none"]

NoResult == [ok |-> FALSE]

NoResponse == [status |-> 0]

(***************************************************************************)
(* getPortfolioHighLT.py / getPortfolioLowLT.py                            *)
(***************************************************************************)
\* A date argument of a request: absent (None), a string that parses to a
\* day ("iso"), or a string no parser accepts ("bad").
NoneDate == [kind |-> "none", day |-> 0]

BadDate == [kind |-> "bad", day |-> 0]

IsoDate(d) == [kind |-> "iso", day |-> d]

\* one entry of the call log: a function that ran to its end and the number
\* of rows of the table it worked on (for filter_data_by_date, of the table
\* it returned)
Call(fn, rows) == [fn |-> fn, rows |-> rows]

\* FilterHighLT with the swap of reversed bounds (lines 115-117) left out
FilterHighLTNoSwap(tab, mn, mx, sd, ed) ==
    LET s0 == IF sd.kind = "iso" THEN sd.day ELSE mn
        e0 == IF ed.kind = "iso" THEN ed.day ELSE mx
        s1 == IF s0 < mn THEN mn ELSE s0
        e1 == IF e0 > mx THEN mx ELSE e0
    IN  [raised     |-> FALSE,
         period_df  |-> SelectSeq(tab, LAMBDA r : r.Date >= s1 /\ r.Date <= e1),
         start_date |-> s1,
         end_date   |-> e1]

\* HighLT: parse (falling back to the global bound), clamp, swap, filter
FilterHighLT(tab, mn, mx, sd, ed) ==
    LET s0 == IF sd.kind = "iso" THEN sd.day ELSE mn
        e0 == IF ed.kind = "iso" THEN ed.day ELSE mx
        s1 == IF s0 < mn THEN mn ELSE s0
        e1 == IF e0 > mx THEN mx ELSE e0
        s2 == IF s1 > e1 THEN e1 ELSE s1
        e2 == IF s1 > e1 THEN s1 ELSE e1
    IN  [raised     |-> FALSE,
         period_df  |-> SelectSeq(tab, LAMBDA r : r.Date >= s2 /\ r.Date <= e2),
         start_date |-> s2,
         end_date   |-> e2]

\* LowLT: pd.Timestamp(string) raises ValueError on an unparseable string;
\* no clamping and no swapping
FilterLowLT(tab, mn, mx, sd, ed) ==
    IF sd.kind = "bad" \/ ed.kind = "bad"
    THEN [raised |-> TRUE, period_df |-> <<>>, start_date |-> 0, end_date |-> 0]
    ELSE LET s0 == IF sd.kind = "iso" THEN sd.day ELSE mn
             e0 == IF ed.kind = "iso" THEN ed.day ELSE mx
         IN  [raised     |-> FALSE,
              period_df  |-> SelectSeq(tab, LAMBDA r : r.Date >= s0 /\ r.Date <= e0),
              start_date |-> s0,
              end_date   |-> e0]

filter_data_by_date(svc, tab, mn, mx, sd, ed) ==
    IF svc = "HighLT" THEN FilterHighLT(tab, mn, mx, sd, ed) ELSE FilterLowLT(tab, mn, mx, sd, ed)

\* calendar year of a day number
DaysPerYear == 3

YearOf(d) == d \div DaysPerYear

\* FirstPrices reading the last row of the period instead of the first
FirstPricesLastRow(period_df) == period_df[Len(period_df)].px

\* first_prices[etf] = period_df.loc[period_df['Date'] == first_date, etf].values[0]
FirstPrices(period_df) ==
    LET first_date == period_df[1].Date
    IN  SelectSeq(period_df, LAMBDA r : r.Date = first_date)[1].px

\* the f'{etf}_value' column of one row
EtfValue(svc, row, first_prices, initial_investment, allocations, etf) ==
    IF REq(DictGet(allocations, etf, R(0)), R(0)) THEN R(0)
    ELSE LET norm == IF svc = "LowLT" \/ first_prices[etf] > 0
                     THEN Mk(row.px[etf], first_prices[etf])
                     ELSE R(1)
             etf_investment == RMul(initial_investment, RDiv(allocations[etf], R(100)))
         IN  RMul(etf_investment, norm)

RECURSIVE CumMax(_, _)
CumMax(tv, t) ==
    IF t = 1 THEN tv[1]
    ELSE LET m == CumMax(tv, t - 1) IN IF RLt(m, tv[t]) THEN tv[t] ELSE m

\* YearlyReturns without the "if len(x) > 1 else 0" of the lambda
YearlyReturnsNoSingleRowCase(rows) ==
    LET years == SortedSeq({YearOf(rows[i].Date) : i \in 1..Len(rows)})
    IN  Eager([k \in 1..Len(years) |->
            LET x == SelectSeq(rows, LAMBDA r : YearOf(r.Date) = years[k])
            IN  [year          |-> years[k],
                 yearly_return |-> RSub(RDiv(x[Len(x)].total_value, x[1].total_value), R(1))]])

\* period_df.groupby('year')['total_value'].apply(lambda x: ...).reset_index()
YearlyReturns(rows) ==
    LET years == SortedSeq({YearOf(rows[i].Date) : i \in 1..Len(rows)})
    IN  Eager([k \in 1..Len(years) |->
            LET x == SelectSeq(rows, LAMBDA r : YearOf(r.Date) = years[k])
            IN  [year          |-> years[k],
                 yearly_return |-> IF Len(x) > 1
                                   THEN RSub(RDiv(x[Len(x)].total_value, x[1].total_value), R(1))
                                   ELSE R(0)]])

calculate_portfolio_value(svc, period_df, initial_investment, allocations) ==
    IF Len(period_df) = 0 THEN [portfolio_df |-> <<>>, yearly_returns |-> <<>>]
    ELSE
    LET first_prices == FirstPrices(period_df)
        n  == Len(period_df)
        val == Eager([t \in 1..n |-> Eager([i \in 1..4 |->
                   EtfValue(svc, period_df[t], first_prices, initial_investment, allocations,
                            ETFS(svc)[i])])])
        tv == Eager([t \in 1..n |-> SumSeq(val[t])])
        peak == Eager([t \in 1..n |-> CumMax(tv, t)])
        rows == Eager([t \in 1..n |->
                   [Date              |-> period_df[t].Date,
                    px                |-> period_df[t].px,
                    value             |-> val[t],
                    total_value       |-> tv[t],
                    daily_return      |-> IF t = 1 THEN NaN
                                          ELSE RSub(RDiv(tv[t], tv[t - 1]), R(1)),
                    cumulative_return |-> RSub(RDiv(tv[t], tv[1]), R(1)),
                    peak_value        |-> peak[t],
                    drawdown          |-> RDiv(RSub(tv[t], peak[t]), peak[t]),
                    year              |-> YearOf(period_df[t].Date)]])
    IN  [portfolio_df |-> rows, yearly_returns |-> YearlyReturns(rows)]

DefaultInvestment == 10000

DefaultAllocations(svc) == [e \in ETFSet(svc) |-> R(25)]

\* abs(total_allocation - 100) > 0.01
AllocationRejected(total_allocation) == RLt(Mk(1, 100), RAbs(RSub(total_allocation, R(100))))

\* EmptyPeriod with the check dropped
EmptyPeriodIgnored(period_df) == FALSE

\* if len(period_df) == 0: return the "No data available" error
EmptyPeriod(period_df) == Len(period_df) = 0

\* What process_request_data returns: (result, error) plus the calls it made.
process_request_data(svc, req, tab, mn, mx) ==
    IF ~req.has_body
    THEN [ok |-> FALSE, raised |-> FALSE, status |-> 400, error |-> "No data provided", calls |-> <<>>]
    ELSE
    LET initial_investment == IF req.initial_investment.present THEN req.initial_investment.value
                              ELSE R(DefaultInvestment)
        allocations == IF req.allocations.present THEN req.allocations.dict
                       ELSE DefaultAllocations(svc)
        total_allocation == SumValues(allocations)
    IN
    IF AllocationRejected(total_allocation)
    THEN [ok |-> FALSE, raised |-> FALSE, status |-> 400, error |-> "Total allocation must be 100%",
          calls |-> <<>>]
    ELSE
    LET f == filter_data_by_date(svc, tab, mn, mx, req.start_date, req.end_date)
        c1 == <<Call("filter_data_by_date", Len(f.period_df))>>
    IN
    IF f.raised
    THEN [ok |-> FALSE, raised |-> TRUE, status |-> 500, error |-> "ValueError", calls |-> <<>>]
    ELSE IF EmptyPeriod(f.period_df)
    THEN [ok |-> FALSE, raised |-> FALSE, status |-> 400,
          error |-> "No data available for the specified date range", calls |-> c1]
    ELSE
    LET pv == calculate_portfolio_value(svc, f.period_df, initial_investment, allocations)
    IN  [ok |-> TRUE, raised |-> FALSE, status |-> 200, error |-> "",
         calls |-> Append(c1, Call("calculate_portfolio_value", Len(f.period_df))),
         portfolio_df |-> pv.portfolio_df,
         yearly_returns |-> pv.yearly_returns,
         initial_investment |-> initial_investment,
         allocations |-> allocations,
         start_date |-> f.start_date,
         end_date |-> f.end_date]

RECURSIVE SeqRMin(_)
\* Series.min(): the smallest value, NaN entries skipped (NaN when none is left)
SeqRMin(s) ==
    IF s = <<>> THEN NaN
    ELSE LET m == SeqRMin(SubSeq(s, 1, Len(s) - 1))
             x == s[Len(s)]
         IN  IF IsNaN(x) THEN m ELSE IF IsNaN(m) \/ RLt(x, m) THEN x ELSE m

\* A finite float whose value the model does not track (the result of a
\* fractional power or of a division by a square root): only its being
\* finite is known.
Untracked == [n |-> 1, d |-> -1]

\* Series.dropna()
DropNa(s) == SelectSeq(s, LAMBDA x : ~IsNaN(x))

LCM(a, b) == (a \div GCD(a, b)) * b

RECURSIVE SeqLCM(_)
\* the least common denominator of a sequence of finite values
SeqLCM(x) == IF x = <<>> THEN 1 ELSE LCM(SeqLCM(SubSeq(x, 1, Len(x) - 1)), x[Len(x)].d)

RECURSIVE SumInt(_)
SumInt(c) == IF c = <<>> THEN 0 ELSE SumInt(SubSeq(c, 1, Len(c) - 1)) + c[Len(c)]

\* Series.std() squared: the sample variance (ddof = 1) of the non-NaN
\* entries; NaN with fewer than two of them or with an infinite one.  With
\* the entries c[i] / l over their common denominator l, the variance is
\* (n * sum(c[i]^2) - sum(c[i])^2) / (l^2 * n * (n - 1)).
Variance(s) ==
    LET x == DropNa(s)
        n == Len(x)
    IN  IF n < 2 THEN NaN
        ELSE IF \E i \in 1..n : ~IsFinite(x[i]) THEN NaN
        ELSE LET l   == SeqLCM(x)
                 c   == Eager([i \in 1..n |-> x[i].n * (l \div x[i].d)])
                 sq  == Eager([i \in 1..n |-> c[i] * c[i]])
                 num == n * SumInt(sq) - SumInt(c) * SumInt(c)
             IN  RDiv(RDiv(RDiv(R(num), R(l)), R(l)), R(n * (n - 1)))

\* trading days per year of the annualisation, np.sqrt(252)
TradingDaysPerYear == 252

\* x.std() * np.sqrt(252).  A volatility is the square root of a rational:
\* the model holds a volatility v as the variance w it is computed from,
\* v = sqrt(252 * w), which keeps 0, NaN and every comparison with a
\* threshold exact.
Annualized(var) == var

\* the volatility v given as a number, in the representation above
VolatilityOf(v) == RDiv(RMul(v, v), R(TradingDaysPerYear))

\* AnnualizedVolatility without the "if not pd.isna(daily_std) else 0"
AnnualizedVolatilityNoIsnaGuard(daily_var) == Annualized(daily_var)

\* daily_std * np.sqrt(252) if not pd.isna(daily_std) else 0
AnnualizedVolatility(daily_var) ==
    IF IsNaN(daily_var) THEN VolatilityOf(R(0)) ELSE Annualized(daily_var)

\* (1 + total_return) ** (1 / years) - 1 if years > 0 else 0, years = days / 365.25.
\* 1 / years is never an integer, so a negative base gives NaN (numpy power).
AnnualizedReturn(total_return, days) ==
    IF days <= 0 THEN R(0)
    ELSE LET base == RAdd(R(1), total_return)
         IN  IF IsNaN(base) THEN NaN
             ELSE IF ~IsFinite(base) THEN PosInf
             ELSE IF base.n < 0 THEN NaN
             ELSE IF base = R(0) THEN R(-1)
             ELSE IF base = R(1) THEN R(0)
             ELSE Untracked

\* (annualized_return - risk_free_rate) / annualized_volatility if annualized_volatility > 0 else 0
SharpeRatio(annualized_return, volatility) ==
    IF ~RLt(VolatilityOf(R(0)), volatility) THEN R(0)
    ELSE IF IsFinite(annualized_return) THEN Untracked
    ELSE annualized_return

\* annualized_volatility < c for a threshold c > 0
VolBelow(volatility, c) == RLt(volatility, VolatilityOf(c))

\* RiskLevelHighLT with closed tiers (<= instead of <)
RiskLevelHighLTClosedTiers(volatility) ==
    IF RLe(volatility, VolatilityOf(Mk(5, 100))) THEN "Very Low"
    ELSE IF RLe(volatility, VolatilityOf(Mk(10, 100))) THEN "Low"
    ELSE IF RLe(volatility, VolatilityOf(Mk(15, 100))) THEN "Moderate"
    ELSE IF RLe(volatility, VolatilityOf(Mk(20, 100))) THEN "High"
    ELSE "Very High"

\* Risk level based on volatility (HighLT)
RiskLevelHighLT(volatility) ==
    IF VolBelow(volatility, Mk(5, 100)) THEN "Very Low"
    ELSE IF VolBelow(volatility, Mk(10, 100)) THEN "Low"
    ELSE IF VolBelow(volatility, Mk(15, 100)) THEN "Moderate"
    ELSE IF VolBelow(volatility, Mk(20, 100)) THEN "High"
    ELSE "Very High"

\* Risk level based on volatility (LowLT)
RiskLevelLowLT(volatility) ==
    IF VolBelow(volatility, Mk(5, 100)) THEN "Very Low"
    ELSE IF VolBelow(volatility, Mk(10, 100)) THEN "Low"
    ELSE IF VolBelow(volatility, Mk(15, 100)) THEN "Moderate"
    ELSE IF VolBelow(volatility, Mk(20, 100)) THEN "High"
    ELSE "Very High"

\* Risk level based on volatility (dashboard)
RiskLevelDashboard(volatility) ==
    IF VolBelow(volatility, Mk(5, 100)) THEN "Very Low"
    ELSE IF VolBelow(volatility, Mk(10, 100)) THEN "Low"
    ELSE IF VolBelow(volatility, Mk(15, 100)) THEN "Moderate"
    ELSE IF VolBelow(volatility, Mk(20, 100)) THEN "High"
    ELSE "Very High"

RiskLevel(impl, volatility) ==
    IF impl = "HighLT" THEN RiskLevelHighLT(volatility)
    ELSE IF impl = "LowLT" THEN RiskLevelLowLT(volatility)
    ELSE RiskLevelDashboard(volatility)

\* calculate_risk_metrics of HighLT, LowLT and the dashboard (the same
\* statements in the three files; impl selects the file's tier table).  days
\* stands for years = days / 365.25.
calculate_risk_metrics(impl, portfolio_df) ==
    LET n == Len(portfolio_df)
        initial_value == portfolio_df[1].total_value
        final_value   == portfolio_df[n].total_value
        total_return  == RSub(RDiv(final_value, initial_value), R(1))
        days          == portfolio_df[n].Date - portfolio_df[1].Date
        annualized_return == AnnualizedReturn(total_return, days)
        daily_var     == Variance(Eager([t \in 1..n |-> portfolio_df[t].daily_return]))
        annualized_volatility == AnnualizedVolatility(daily_var)
    IN  [initial_value     |-> initial_value,
         final_value       |-> final_value,
         total_return      |-> total_return,
         annualized_return |-> annualized_return,
         days              |-> days,
         max_drawdown      |-> SeqRMin(Eager([t \in 1..n |-> portfolio_df[t].drawdown])),
         volatility        |-> annualized_volatility,
         risk_level        |-> RiskLevel(impl, annualized_volatility),
         sharpe_ratio      |-> SharpeRatio(annualized_return, annualized_volatility)]

\* calculate_etf_performance: first and last price, total return and
\* volatility (NaN with fewer than two returns) per ETF
calculate_etf_performance(svc, period_df) ==
    [e \in ETFSet(svc) |->
        LET first_price == period_df[1].px[e]
            last_price  == period_df[Len(period_df)].px[e]
            returns     == Eager([t \in 1..(Len(period_df) - 1) |->
                               RSub(Mk(period_df[t + 1].px[e], period_df[t].px[e]), R(1))])
        IN  [first_price  |-> R(first_price),
             last_price   |-> R(last_price),
             total_return |-> RSub(Mk(last_price, first_price), R(1)),
             volatility   |-> Annualized(Variance(returns))]]

\* JSON null
Null == [null |-> TRUE]

IsNull(x) == "null" \in DOMAIN x

\* safe_json_serialization on one float: NaN and +-Infinity become null
SafeFloat(x) == IF IsNull(x) THEN x ELSE IF IsFinite(x) THEN x ELSE Null

\* safe_json_serialization on a dict of floats (strings and integers pass)
SafeDict(obj, float_keys) ==
    [k \in DOMAIN obj |-> IF k \in float_keys THEN SafeFloat(obj[k]) ELSE obj[k]]

\* the float entries of the metrics dict
MetricFloats ==
    {"initial_value", "final_value", "total_return", "annualized_return", "max_drawdown",
     "volatility", "sharpe_ratio"}

\* safe_json_serialization(portfolio_df.to_dict(orient='records'))
SafeRows(portfolio_df) ==
    Eager([t \in 1..Len(portfolio_df) |->
        [Date              |-> portfolio_df[t].Date,
         total_value       |-> SafeFloat(portfolio_df[t].total_value),
         daily_return      |-> SafeFloat(portfolio_df[t].daily_return),
         cumulative_return |-> SafeFloat(portfolio_df[t].cumulative_return),
         peak_value        |-> SafeFloat(portfolio_df[t].peak_value),
         drawdown          |-> SafeFloat(portfolio_df[t].drawdown)]])

\* safe_json_serialization(yearly_returns.to_dict(orient='records'))
SafeYears(yearly_returns) ==
    Eager([k \in 1..Len(yearly_returns) |->
        [year          |-> yearly_returns[k].year,
         yearly_return |-> SafeFloat(yearly_returns[k].yearly_return)]])

(***************************************************************************)
(* Requests.                                                               *)
(***************************************************************************)
DateInputs == {NoneDate, BadDate} \cup {IsoDate(d) : d \in 0..(MaxDay + 1)}

Absent == [present |-> FALSE, value |-> R(0)]

Given(v) == [present |-> TRUE, value |-> v]

InvestmentInputs == {Absent, Given(R(0)), Given(R(-1000))}

\* identifiers a request may name: the service's four and one it does not know
AllocationKeys(svc) == ETFSet(svc) \cup {"FOO"}

SingleValues == {R(97), Mk(199, 2), Mk(19999, 200), R(100)}

SplitValues == {R(-10), R(50)}

AllocationDicts(svc) ==
    {[x \in {k} |-> v] : k \in AllocationKeys(svc), v \in SingleValues}
    \cup {[x \in {k[1], k[2]} |-> IF x = k[1] THEN a ELSE RSub(R(100), a)] :
             k \in {kk \in AllocationKeys(svc) \X AllocationKeys(svc) : kk[1] # kk[2]},
             a \in SplitValues}

AllocationInputs(svc) ==
    {[present |-> FALSE, dict |-> <<>>]}
    \cup {[present |-> TRUE, dict |-> d] : d \in AllocationDicts(svc)}

Requests(svc) ==
    [service : {svc}, has_body : {TRUE}, initial_investment : InvestmentInputs,
     allocations : AllocationInputs(svc), start_date : DateInputs, end_date : DateInputs]
    \cup {[service |-> svc, has_body |-> FALSE, initial_investment |-> Absent,
           allocations |-> [present |-> FALSE, dict |-> <<>>],
           start_date |-> NoneDate, end_date |-> NoneDate]}

\* The requests of the metric endpoints: every pair of dates and every
\* investment, with the default allocations, one instrument at 100 (the
\* rising one, the falling one, an unknown one) and one short position.
MetricAllocationInputs(svc) ==
    {[present |-> FALSE, dict |-> <<>>]}
    \cup {[present |-> TRUE, dict |-> [x \in {k} |-> R(100)]] :
              k \in {ETFS(svc)[1], ETFS(svc)[3], "FOO"}}
    \cup {[present |-> TRUE,
           dict |-> [x \in {ETFS(svc)[1], ETFS(svc)[2]} |->
                        IF x = ETFS(svc)[1] THEN R(-10) ELSE R(110)]]}

MetricRequests(svc) ==
    [service : {svc}, has_body : {TRUE}, initial_investment : InvestmentInputs,
     allocations : MetricAllocationInputs(svc), start_date : DateInputs, end_date : DateInputs]

(***************************************************************************)
(* Endpoints.  Each handler answers one request; SendResponse ends the     *)
(* request context, after which the next request is taken.                 *)
(***************************************************************************)
ErrorResponse(endpoint, p) ==
    [endpoint |-> endpoint,
     status   |-> IF p.raised /\ endpoint = "calculate-all" THEN 400 ELSE p.status,
     error    |-> p.error]

\* except Exception as e: return jsonify({"error": str(e)}), 500
Raised(endpoint, e) == [endpoint |-> endpoint, status |-> 500, error |-> e]

Process(req) ==
    process_request_data(req.service, req, ETF_DF[req.service], MIN_DATE[req.service],
                         MAX_DATE[req.service])

Answer(req, p, resp, more_calls) ==
    /\ request' = req
    /\ result' = (IF p.ok THEN p ELSE NoResult)
    /\ response' = resp
    /\ calls' = p.calls \o more_calls
    /\ UNCHANGED <<ETF_DF, MIN_DATE, MAX_DATE>>

\* POST /api/portfolio-value
get_final_portfolio_value ==
    /\ request = NoRequest
    /\ \E svc \in Services : \E req \in Requests(svc) :
        \E p \in {Process(req)} :
            IF ~p.ok THEN Answer(req, p, ErrorResponse("portfolio-value", p), <<>>)
            ELSE IF Len(p.portfolio_df) = 0
            THEN Answer(req, p, Raised("portfolio-value", "KeyError"), <<>>)
            ELSE LET df == p.portfolio_df
                     final_value   == df[Len(df)].total_value
                     initial_value == df[1].total_value
                 IN  Answer(req, p,
                            [endpoint |-> "portfolio-value", status |-> 200, error |-> "",
                             initial_value |-> initial_value,
                             final_value |-> final_value,
                             growth_amount |-> RSub(final_value, initial_value),
                             growth_percentage |->
                                 RMul(RSub(RDiv(final_value, initial_value), R(1)), R(100))],
                            <<>>)

\* POST /api/total-return
get_total_return ==
    /\ request = NoRequest
    /\ \E svc \in Services : \E req \in MetricRequests(svc) :
        \E p \in {Process(req)} :
            IF ~p.ok THEN Answer(req, p, ErrorResponse("total-return", p), <<>>)
            ELSE IF Len(p.portfolio_df) = 0
            THEN Answer(req, p, Raised("total-return", "KeyError"),
                        <<Call("calculate_risk_metrics", 0)>>)
            ELSE LET metrics == calculate_risk_metrics(svc, p.portfolio_df)
                 IN  Answer(req, p,
                            [endpoint |-> "total-return", status |-> 200, error |-> "",
                             total_return |-> metrics.total_return,
                             annualized_return |-> metrics.annualized_return,
                             days |-> metrics.days,
                             sharpe_ratio |-> metrics.sharpe_ratio],
                            <<Call("calculate_risk_metrics", Len(p.portfolio_df))>>)

\* POST /api/etf-comparison
get_etf_comparison ==
    /\ request = NoRequest
    /\ \E svc \in Services : \E req \in Requests(svc) :
        \E p \in {Process(req)} :
            IF ~p.ok THEN Answer(req, p, ErrorResponse("etf-comparison", p), <<>>)
            ELSE IF Len(p.portfolio_df) = 0
            THEN Answer(req, p,
                        [endpoint |-> "etf-comparison", status |-> 200, error |-> "",
                         etf_performance |-> <<>>, allocations |-> p.allocations],
                        <<Call("calculate_etf_performance", 0)>>)
            ELSE Answer(req, p,
                        [endpoint |-> "etf-comparison", status |-> 200, error |-> "",
                         etf_performance |-> calculate_etf_performance(svc, p.portfolio_df),
                         allocations |-> p.allocations],
                        <<Call("calculate_etf_performance", Len(p.portfolio_df))>>)

\* POST /api/calculate-all
calculate_all ==
    /\ request = NoRequest
    /\ \E svc \in Services : \E req \in MetricRequests(svc) :
        \E p \in {Process(req)} :
            IF ~p.ok THEN Answer(req, p, ErrorResponse("calculate-all", p), <<>>)
            ELSE IF svc = "HighLT" /\ Len(p.portfolio_df) < 2
            THEN Answer(req, p,
                        [endpoint |-> "calculate-all", status |-> 400,
                         error |-> "Insufficient data points for the selected time period"],
                        <<>>)
            ELSE IF Len(p.portfolio_df) = 0
            THEN Answer(req, p,
                        [endpoint |-> "calculate-all", status |-> 200, error |-> "",
                         metrics |-> <<>>, etf_performance |-> <<>>],
                        <<Call("calculate_risk_metrics", 0),
                          Call("calculate_etf_performance", 0)>>)
            ELSE LET metrics == calculate_risk_metrics(svc, p.portfolio_df)
                     etf_performance == calculate_etf_performance(svc, p.portfolio_df)
                 IN  Answer(req, p,
                            [endpoint |-> "calculate-all", status |-> 200, error |-> "",
                             metrics |-> SafeDict(metrics, MetricFloats),
                             etf_performance |->
                                 [e \in DOMAIN etf_performance |->
                                     SafeDict(etf_performance[e], DOMAIN etf_performance[e])],
                             portfolio_data |-> SafeRows(p.portfolio_df),
                             yearly_returns |-> SafeYears(p.yearly_returns)],
                            <<Call("calculate_risk_metrics", Len(p.portfolio_df)),
                              Call("calculate_etf_performance", Len(p.portfolio_df))>>)

RECURSIVE SeqRMax(_)
\* Series.max(): the largest value, NaN entries skipped (NaN when none is left)
SeqRMax(s) ==
    IF s = <<>> THEN NaN
    ELSE LET m == SeqRMax(SubSeq(s, 1, Len(s) - 1))
             x == s[Len(s)]
         IN  IF IsNaN(x) THEN m ELSE IF IsNaN(m) \/ RLt(m, x) THEN x ELSE m

\* the drawdown column
DrawdownColumn(df) == Eager([t \in 1..Len(df) |-> df[t].drawdown])

\* POST /api/max-drawdown
get_max_drawdown ==
    /\ request = NoRequest
    /\ \E svc \in Services : \E req \in MetricRequests(svc) :
        \E p \in {Process(req)} :
            IF ~p.ok THEN Answer(req, p, ErrorResponse("max-drawdown", p), <<>>)
            ELSE LET df == p.portfolio_df
                     max_drawdown == SeqRMin(DrawdownColumn(df))
                     hits == SelectSeq(df, LAMBDA r : REq(r.drawdown, max_drawdown))
                 IN  IF Len(hits) = 0
                     THEN Answer(req, p, Raised("max-drawdown", "IndexError"), <<>>)
                     ELSE Answer(req, p,
                                 [endpoint |-> "max-drawdown", status |-> 200, error |-> "",
                                  max_drawdown |-> max_drawdown,
                                  max_drawdown_percentage |-> RMul(max_drawdown, R(100)),
                                  max_drawdown_date |-> hits[1].Date],
                                 <<>>)

\* POST /api/risk-level
get_risk_level ==
    /\ request = NoRequest
    /\ \E svc \in Services : \E req \in MetricRequests(svc) :
        \E p \in {Process(req)} :
            IF ~p.ok THEN Answer(req, p, ErrorResponse("risk-level", p), <<>>)
            ELSE IF Len(p.portfolio_df) = 0
            THEN Answer(req, p, Raised("risk-level", "KeyError"),
                        <<Call("calculate_risk_metrics", 0)>>)
            ELSE LET metrics == calculate_risk_metrics(svc, p.portfolio_df)
                 IN  Answer(req, p,
                            [endpoint |-> "risk-level", status |-> 200, error |-> "",
                             metrics |-> metrics,
                             risk_level |-> metrics.risk_level,
                             volatility |-> metrics.volatility,
                             sharpe_ratio |-> metrics.sharpe_ratio],
                            <<Call("calculate_risk_metrics", Len(p.portfolio_df))>>)

\* POST /api/portfolio-growth
get_portfolio_growth ==
    /\ request = NoRequest
    /\ \E svc \in Services : \E req \in MetricRequests(svc) :
        \E p \in {Process(req)} :
            IF ~p.ok THEN Answer(req, p, ErrorResponse("portfolio-growth", p), <<>>)
            ELSE LET df == p.portfolio_df
                 IN  Answer(req, p,
                            [endpoint |-> "portfolio-growth", status |-> 200, error |-> "",
                             portfolio_growth |->
                                 Eager([t \in 1..Len(df) |->
                                     [Date |-> df[t].Date,
                                      total_value |-> df[t].total_value,
                                      cumulative_return |-> df[t].cumulative_return,
                                      cumulative_return_percentage |->
                                          RMul(df[t].cumulative_return, R(100))]])],
                            <<>>)

\* the index label of a row of the period: its position in the global table
RowLabel(svc, d) == (CHOOSE i \in 1..Len(ETF_DF[svc]) : ETF_DF[svc][i].Date = d) - 1

RECURSIVE DrawdownPeriodsFromFivePercent(_, _, _, _, _)
\* DrawdownPeriods opening a period at drawdown <= -0.05
DrawdownPeriodsFromFivePercent(svc, df, k, in_drawdown, start) ==
    IF k > Len(df) THEN <<>>
    ELSE IF ~in_drawdown /\ RLe(df[k].drawdown, Mk(-5, 100))
    THEN DrawdownPeriodsFromFivePercent(svc, df, k + 1, TRUE, k)
    ELSE IF in_drawdown /\ RLe(Mk(-1, 100), df[k].drawdown)
    THEN <<[start_date    |-> df[start].Date,
            end_date      |-> df[k].Date,
            max_drawdown  |-> SeqRMin(SubSeq(DrawdownColumn(df), start, k)),
            recovery_days |-> RowLabel(svc, df[k].Date) - RowLabel(svc, df[start].Date)]>>
         \o DrawdownPeriodsFromFivePercent(svc, df, k + 1, FALSE, start)
    ELSE DrawdownPeriodsFromFivePercent(svc, df, k + 1, in_drawdown, start)

RECURSIVE DrawdownPeriodsClosedAtEnd(_, _, _, _, _)
\* DrawdownPeriods reporting a period still open at the last row
DrawdownPeriodsClosedAtEnd(svc, df, k, in_drawdown, start) ==
    IF k > Len(df)
    THEN IF in_drawdown
         THEN <<[start_date    |-> df[start].Date,
                 end_date      |-> df[Len(df)].Date,
                 max_drawdown  |-> SeqRMin(SubSeq(DrawdownColumn(df), start, Len(df))),
                 recovery_days |-> RowLabel(svc, df[Len(df)].Date) - RowLabel(svc, df[start].Date)]>>
         ELSE <<>>
    ELSE IF ~in_drawdown /\ RLt(df[k].drawdown, Mk(-5, 100))
    THEN DrawdownPeriodsClosedAtEnd(svc, df, k + 1, TRUE, k)
    ELSE IF in_drawdown /\ RLe(Mk(-1, 100), df[k].drawdown)
    THEN <<[start_date    |-> df[start].Date,
            end_date      |-> df[k].Date,
            max_drawdown  |-> SeqRMin(SubSeq(DrawdownColumn(df), start, k)),
            recovery_days |-> RowLabel(svc, df[k].Date) - RowLabel(svc, df[start].Date)]>>
         \o DrawdownPeriodsClosedAtEnd(svc, df, k + 1, FALSE, start)
    ELSE DrawdownPeriodsClosedAtEnd(svc, df, k + 1, in_drawdown, start)

RECURSIVE DrawdownPeriods(_, _, _, _, _)
\* the loop over drawdown_data.iterrows(): a period opens below -5% and
\* closes at the first row back within 1%
DrawdownPeriods(svc, df, k, in_drawdown, start) ==
    IF k > Len(df) THEN <<>>
    ELSE IF ~in_drawdown /\ RLt(df[k].drawdown, Mk(-5, 100))
    THEN DrawdownPeriods(svc, df, k + 1, TRUE, k)
    ELSE IF in_drawdown /\ RLe(Mk(-1, 100), df[k].drawdown)
    THEN <<[start_date    |-> df[start].Date,
            end_date      |-> df[k].Date,
            max_drawdown  |-> SeqRMin(SubSeq(DrawdownColumn(df), start, k)),
            recovery_days |-> RowLabel(svc, df[k].Date) - RowLabel(svc, df[start].Date)]>>
         \o DrawdownPeriods(svc, df, k + 1, FALSE, start)
    ELSE DrawdownPeriods(svc, df, k + 1, in_drawdown, start)

\* the handler of /api/drawdown-analysis for one request
DrawdownAnalysis(svc, req) ==
    \E p \in {Process(req)} :
        IF ~p.ok THEN Answer(req, p, ErrorResponse("drawdown-analysis", p), <<>>)
        ELSE LET df == p.portfolio_df
             IN  Answer(req, p,
                        [endpoint |-> "drawdown-analysis", status |-> 200, error |-> "",
                         drawdown_data |->
                             Eager([t \in 1..Len(df) |->
                                 [Date |-> df[t].Date,
                                  total_value |-> df[t].total_value,
                                  peak_value |-> df[t].peak_value,
                                  drawdown |-> df[t].drawdown,
                                  drawdown_percentage |-> RMul(df[t].drawdown, R(100))]]),
                         max_drawdown |-> SeqRMin(DrawdownColumn(df)),
                         severe_drawdowns |->
                             Len(SelectSeq(df, LAMBDA r : RLt(r.drawdown, Mk(-1, 10)))),
                         drawdown_periods |-> DrawdownPeriods(svc, df, 1, FALSE, 1)],
                        <<>>)

\* POST /api/drawdown-analysis
get_drawdown_analysis ==
    /\ request = NoRequest
    /\ \E svc \in Services : \E req \in MetricRequests(svc) : DrawdownAnalysis(svc, req)

\* POST /api/yearly-returns
get_yearly_returns ==
    /\ request = NoRequest
    /\ \E svc \in Services : \E req \in MetricRequests(svc) :
        \E p \in {Process(req)} :
            IF ~p.ok THEN Answer(req, p, ErrorResponse("yearly-returns", p), <<>>)
            ELSE LET yr == p.yearly_returns
                     col == Eager([k \in 1..Len(yr) |-> yr[k].yearly_return])
                     valid == DropNa(col)
                 IN  IF Len(valid) = 0
                     THEN \* idxmax of a column without a value
                          Answer(req, p, Raised("yearly-returns", "ValueError"), <<>>)
                     ELSE
                     LET avg_yearly_return == RDiv(SumSeq(valid), R(Len(valid)))
                         best_return  == SeqRMax(col)
                         worst_return == SeqRMin(col)
                     IN  Answer(req, p,
                            [endpoint |-> "yearly-returns", status |-> 200, error |-> "",
                             yearly_returns |->
                                 Eager([k \in 1..Len(yr) |->
                                     [year |-> yr[k].year,
                                      yearly_return |-> yr[k].yearly_return,
                                      yearly_return_percentage |->
                                          RMul(yr[k].yearly_return, R(100))]]),
                             avg_yearly_return |-> avg_yearly_return,
                             avg_yearly_return_percentage |-> RMul(avg_yearly_return, R(100)),
                             positive_years |-> Len(SelectSeq(col, LAMBDA v : RLt(R(0), v))),
                             negative_years |-> Len(SelectSeq(col, LAMBDA v : RLt(v, R(0)))),
                             best_year |->
                                 SelectSeq(yr, LAMBDA y : REq(y.yearly_return, best_return))[1].year,
                             best_return |-> best_return,
                             best_return_percentage |-> RMul(best_return, R(100)),
                             worst_year |->
                                 SelectSeq(yr, LAMBDA y : REq(y.yearly_return, worst_return))[1].year,
                             worst_return |-> worst_return,
                             worst_return_percentage |-> RMul(worst_return, R(100))],
                            <<>>)

(***************************************************************************)
(* getCandlestickinfo.py                                                   *)
(***************************************************************************)
\* the keys of ETF_FILE_MAP, in the order of the source
SupportedTickers == <<"SPLV", "USMV", "VYM", "AGG", "UPRO", "ARKK", "IWF", "QQQ">>

SupportedTickerSet == {SupportedTickers[i] : i \in 1..Len(SupportedTickers)}

TickerIndex(t) == CHOOSE i \in 1..Len(SupportedTickers) : SupportedTickers[i] = t

\* Days the file of ticker number i has rows for: the even-numbered files
\* start one day later than the odd-numbered ones.
TickerDays(i) == {d \in TradingDays : d >= 1 + ((i + 1) % 2)}

\* load_stock_data_from_csv for a supported ticker: OHLC rows, Date index sorted
load_stock_data_from_csv(ticker) ==
    LET i == TickerIndex(ticker)
        days == SortedSeq(TickerDays(i))
    IN  Eager([k \in 1..Len(days) |->
            LET c == CsvPrice(i, days[k])
            IN  [Date |-> days[k], Open |-> c, High |-> c + 1, Low |-> c - 1, Close |-> c,
                 Volume |-> 100 * days[k]]])

\* df.loc[a:b] on a sorted date index: both ends inclusive
LocSlice(df, a, b) == SelectSeq(df, LAMBDA r : r.Date >= a /\ r.Date <= b)

\* not np.isclose(weights_sum, 1.0, atol=1e-2), with numpy's default rtol=1e-5
WeightsRejected(weights_sum) == RLt(RAdd(Mk(1, 100), Mk(1, 100000)), RAbs(RSub(weights_sum, R(1))))

\* Series.sum(skipna=True) of one row
RECURSIVE SumSkipNa(_)
SumSkipNa(s) ==
    IF s = <<>> THEN R(0)
    ELSE LET x == s[Len(s)]
             rest == SumSkipNa(SubSeq(s, 1, Len(s) - 1))
         IN  IF IsNaN(x) THEN rest ELSE RAdd(rest, x)

RMax(a, b) == IF RLt(a, b) THEN b ELSE a

RMin(a, b) == IF RLt(b, a) THEN b ELSE a

\* values np.random.random() may return, in [0, 1)
RandomDraws == {R(0), Mk(1, 2)}

\* the price of ticker t on day d in the assembled table (NaN when its file has no such row)
ClosePrice(all_data, t, d) ==
    LET hit == SelectSeq(all_data[t], LAMBDA r : r.Date = d)
    IN  IF Len(hit) = 0 THEN NaN ELSE R(hit[1].Close)

\* Lines 194-212: price table, shares, per-day portfolio value.
PortfolioTable(tickers_dict, initial_investment, all_data) ==
    LET ts == SetToSeq(DOMAIN tickers_dict)
        index == SortedSeq(UNION {{all_data[t][k].Date : k \in 1..Len(all_data[t])} : t \in DOMAIN tickers_dict})
        first_day_prices == [t \in DOMAIN tickers_dict |-> ClosePrice(all_data, t, index[1])]
        shares == [t \in DOMAIN tickers_dict |->
                      RDiv(RMul(initial_investment, tickers_dict[t]), first_day_prices[t])]
    IN  [index |-> index,
         first_day_prices |-> first_day_prices,
         shares |-> shares,
         portfolio_value |->
             Eager([k \in 1..Len(index) |->
                 SumSkipNa(Eager([j \in 1..Len(ts) |->
                     RMul(ClosePrice(all_data, ts[j], index[k]), shares[ts[j]])]))])]

RECURSIVE PortfolioCandlesOpenAtClose(_, _, _, _)
\* PortfolioCandles opening every candle at its own close
PortfolioCandlesOpenAtClose(index, value, draws, k) ==
    IF k = 0 THEN <<>>
    ELSE LET open_value == value[k]
             high_value == RMul(RMax(open_value, value[k]),
                                RAdd(RAdd(R(1), Mk(5, 1000)), RMul(Mk(5, 1000), draws[k][1])))
             low_value  == RMul(RMin(open_value, value[k]),
                                RSub(RSub(R(1), Mk(5, 1000)), RMul(Mk(5, 1000), draws[k][2])))
         IN  Append(PortfolioCandlesOpenAtClose(index, value, draws, k - 1),
                    [date |-> index[k], open |-> open_value, high |-> high_value,
                     low |-> low_value, close |-> value[k], volume |-> 0])

\* Lines 214-240: the synthetic candles; draws[k] = <<u_high, u_low>> of day k
RECURSIVE PortfolioCandles(_, _, _, _)
PortfolioCandles(index, value, draws, k) ==
    IF k = 0 THEN <<>>
    ELSE LET open_value == IF k = 1 THEN value[1] ELSE value[k - 1]
             high_value == RMul(RMax(open_value, value[k]),
                                RAdd(RAdd(R(1), Mk(5, 1000)), RMul(Mk(5, 1000), draws[k][1])))
             low_value  == RMul(RMin(open_value, value[k]),
                                RSub(RSub(R(1), Mk(5, 1000)), RMul(Mk(5, 1000), draws[k][2])))
         IN  Append(PortfolioCandles(index, value, draws, k - 1),
                    [date |-> index[k], open |-> open_value, high |-> high_value,
                     low |-> low_value, close |-> value[k], volume |-> 0])

TickerCandles(filtered_df) ==
    Eager([k \in 1..Len(filtered_df) |->
        [date |-> filtered_df[k].Date, open |-> R(filtered_df[k].Open),
         high |-> R(filtered_df[k].High), low |-> R(filtered_df[k].Low),
         close |-> R(filtered_df[k].Close), volume |-> filtered_df[k].Volume]])

CandleError(status, error) == [endpoint |-> "candlestick-data", status |-> status, error |-> error]

CandleKeys == {"SPLV", "USMV", "FOO"}

WeightDicts ==
    {[x \in {k} |-> RDiv(v, R(100))] : k \in CandleKeys, v \in SingleValues}
    \cup {[x \in {k[1], k[2]} |-> IF x = k[1] THEN RDiv(a, R(100)) ELSE RDiv(RSub(R(100), a), R(100))] :
             k \in {kk \in CandleKeys \X CandleKeys : kk[1] # kk[2]},
             a \in SplitValues}

CandleRequests ==
    [service : {"Candlestick"}, has_body : {TRUE}, ticker : {"portfolio"},
     tickers : {[present |-> FALSE, dict |-> <<>>]}
               \cup {[present |-> TRUE, dict |-> d] : d \in WeightDicts},
     initial_investment : InvestmentInputs, start_date : DateInputs, end_date : DateInputs]
    \cup
    [service : {"Candlestick"}, has_body : {TRUE}, ticker : CandleKeys \cup {""},
     tickers : {[present |-> FALSE, dict |-> <<>>]},
     initial_investment : {Absent}, start_date : DateInputs, end_date : DateInputs]
    \cup {[service |-> "Candlestick", has_body |-> FALSE, ticker |-> "",
           tickers |-> [present |-> FALSE, dict |-> <<>>], initial_investment |-> Absent,
           start_date |-> NoneDate, end_date |-> NoneDate]}

Reply(req, res, resp, log) ==
    /\ request' = req
    /\ result' = res
    /\ response' = resp
    /\ calls' = log
    /\ UNCHANGED <<ETF_DF, MIN_DATE, MAX_DATE>>

\* POST /candlestick-data
get_candlestick_data ==
    /\ request = NoRequest
    /\ \E req \in CandleRequests :
        IF ~req.has_body THEN Reply(req, NoResult, CandleError(400, "Missing request body"), <<>>)
        ELSE IF req.ticker = ""
        THEN Reply(req, NoResult, CandleError(400, "Missing 'ticker' in request body"), <<>>)
        ELSE IF req.start_date.kind = "none" \/ req.end_date.kind = "none"
        THEN Reply(req, NoResult,
                   CandleError(400, "Missing 'start_date' or 'end_date' in request body"), <<>>)
        ELSE IF req.start_date.kind = "bad" \/ req.end_date.kind = "bad"
        THEN Reply(req, NoResult, CandleError(400, "Invalid date format"), <<>>)
        ELSE
        LET start_date_dt == req.start_date.day
            end_date_dt   == req.end_date.day + 1
        IN
        IF req.ticker = "portfolio"
        THEN
            IF ~req.tickers.present
            THEN Reply(req, NoResult,
                       CandleError(400, "Portfolio requests require 'tickers' dictionary"), <<>>)
            ELSE
            LET tickers_dict == req.tickers.dict
                initial_investment == IF req.initial_investment.present
                                      THEN req.initial_investment.value
                                      ELSE R(DefaultInvestment)
            IN
            IF \E t \in DOMAIN tickers_dict : t \notin SupportedTickerSet
            THEN Reply(req, NoResult, CandleError(400, "Ticker is not supported"), <<>>)
            ELSE IF WeightsRejected(SumValues(tickers_dict))
            THEN Reply(req, NoResult, CandleError(400, "Weights should sum to 1"), <<>>)
            ELSE
            \E all_data \in {[t \in DOMAIN tickers_dict |->
                                LocSlice(load_stock_data_from_csv(t),
                                         start_date_dt, end_date_dt)]} :
                IF \E t \in DOMAIN tickers_dict : Len(all_data[t]) = 0
                THEN Reply(req, NoResult,
                           CandleError(404, "No data in the specified date range"),
                           <<Call("load_stock_data_from_csv", 0)>>)
                ELSE
                \E tab \in {PortfolioTable(tickers_dict, initial_investment, all_data)} :
                \E draws \in [1..Len(tab.index) -> RandomDraws \X RandomDraws] :
                    Reply(req,
                          [ok |-> TRUE, index |-> tab.index,
                           first_day_prices |-> tab.first_day_prices,
                           shares |-> tab.shares, portfolio_value |-> tab.portfolio_value,
                           initial_investment |-> initial_investment,
                           tickers_dict |-> tickers_dict],
                          [endpoint |-> "candlestick-data", status |-> 200, error |-> "",
                           ticker |-> "portfolio",
                           candlestick_data |->
                               PortfolioCandles(tab.index, tab.portfolio_value, draws,
                                                Len(tab.index))],
                          <<Call("load_stock_data_from_csv", Len(tab.index))>>)
        ELSE
            IF req.ticker \notin SupportedTickerSet
            THEN Reply(req, NoResult, CandleError(400, "Data not available"), <<>>)
            ELSE
            \E filtered_df \in {LocSlice(load_stock_data_from_csv(req.ticker),
                                         start_date_dt, end_date_dt)} :
                IF Len(filtered_df) = 0
                THEN Reply(req, NoResult,
                           CandleError(404, "No data available in the specified date range"),
                           <<Call("load_stock_data_from_csv", 0)>>)
                ELSE Reply(req, NoResult,
                           [endpoint |-> "candlestick-data", status |-> 200, error |-> "",
                            ticker |-> req.ticker,
                            candlestick_data |-> TickerCandles(filtered_df)],
                           <<Call("load_stock_data_from_csv", Len(filtered_df))>>)

(***************************************************************************)
(* prototype-plotly-dash-db/app.py: the dashboard.  Its table has the      *)
(* columns of the LowLT file and is loaded once, when the module is        *)
(* imported; the callback update_results answers one click.                *)
(***************************************************************************)
\* df = load_data()
DashboardDf == ReadCsv("LowLT")

\* min_date = df['Date'].min().date()
min_date == SeqMin(DateColumn(DashboardDf))

\* max_date = df['Date'].max().date()
max_date == SeqMax(DateColumn(DashboardDf))

\* ScaledAllocations scaling to a sum of 1 instead of 100
ScaledAllocationsToOne(allocations) ==
    LET total_allocation == SumValues(allocations)
    IN  IF total_allocation = R(0) THEN allocations
        ELSE [e \in DOMAIN allocations |->
                 RMul(allocations[e], RDiv(R(1), total_allocation))]

\* total_allocation = sum(allocations.values()); every allocation is scaled
\* by 100 / total_allocation unless the total is 0
ScaledAllocations(allocations) ==
    LET total_allocation == SumValues(allocations)
    IN  IF total_allocation = R(0) THEN allocations
        ELSE [e \in DOMAIN allocations |->
                 RMul(allocations[e], RDiv(R(100), total_allocation))]

\* calculate_portfolio_value of the dashboard: filter by date, scale the
\* allocations, then the statements of the LowLT function; a lone empty
\* DataFrame when no row is in range
dashboard_calculate_portfolio_value(df, start_date, end_date, initial_investment, allocations) ==
    LET period_df == SelectSeq(df, LAMBDA r : r.Date >= start_date /\ r.Date <= end_date)
    IN  IF Len(period_df) = 0 THEN [empty |-> TRUE]
        ELSE LET scaled == ScaledAllocations(allocations)
                 pv == calculate_portfolio_value("LowLT", period_df, initial_investment, scaled)
             IN  [empty          |-> FALSE,
                  portfolio_df   |-> pv.portfolio_df,
                  yearly_returns |-> pv.yearly_returns,
                  allocations    |-> scaled]

\* the values of the date slider: offsets in days from min_date, lower first
SliderRanges == {r \in (0..(max_date - min_date)) \X (0..(max_date - min_date)) : r[1] <= r[2]}

\* the investment field
DashboardInvestments == {R(10000), R(1000)}

\* the four allocation sliders (SPY, BND, VTIP, VXUS)
SliderAllocations ==
    {<<25, 25, 25, 25>>, <<100, 0, 0, 0>>, <<0, 0, 100, 0>>, <<50, 50, 50, 50>>, <<0, 0, 0, 0>>}

\* the click on the calculate button: update_results
update_results ==
    /\ request = NoRequest
    /\ \E date_range \in SliderRanges, initial_investment \in DashboardInvestments,
          sliders \in SliderAllocations :
        LET start_date == min_date + date_range[1]
            end_date   == min_date + date_range[2]
            allocations == [e \in ETFSet("LowLT") |->
                               R(sliders[CHOOSE i \in 1..4 : ETFS("LowLT")[i] = e])]
            req == [service |-> "dashboard", date_range |-> date_range,
                    initial_investment |-> initial_investment, allocations |-> allocations]
        IN  \E pv \in {dashboard_calculate_portfolio_value(DashboardDf, start_date, end_date,
                                                           initial_investment, allocations)} :
            /\ request' = req
            /\ UNCHANGED <<ETF_DF, MIN_DATE, MAX_DATE>>
            /\ IF pv.empty
               THEN \* the lone DataFrame cannot be unpacked into two names
                    /\ result' = NoResult
                    /\ response' = [endpoint |-> "update_results", status |-> 500,
                                    error |-> "ValueError"]
                    /\ calls' = <<Call("calculate_portfolio_value", 0)>>
               ELSE LET metrics == calculate_risk_metrics("dashboard", pv.portfolio_df)
                    IN  /\ result' = [ok |-> TRUE, dashboard |-> TRUE,
                                      portfolio_df |-> pv.portfolio_df,
                                      yearly_returns |-> pv.yearly_returns,
                                      initial_investment |-> initial_investment,
                                      allocations |-> pv.allocations,
                                      start_date |-> start_date,
                                      end_date |-> end_date]
                        /\ response' = [endpoint |-> "update_results", status |-> 200,
                                        error |-> "",
                                        metrics |-> metrics,
                                        final_value |-> metrics.final_value,
                                        initial_value |-> metrics.initial_value,
                                        total_return |-> metrics.total_return,
                                        annualized_return |-> metrics.annualized_return,
                                        max_drawdown |-> metrics.max_drawdown,
                                        risk_level |-> metrics.risk_level,
                                        volatility |-> metrics.volatility]
                        /\ calls' = <<Call("calculate_portfolio_value", Len(pv.portfolio_df)),
                                      Call("calculate_risk_metrics", Len(pv.portfolio_df))>>

\* the response is sent and the request context is torn down
SendResponse ==
    /\ request # NoRequest
    /\ request' = NoRequest
    /\ result' = NoResult
    /\ response' = NoResponse
    /\ calls' = <<>>
    /\ UNCHANGED <<ETF_DF, MIN_DATE, MAX_DATE>>

\* load_data() at start-up of each service
Init ==
    /\ ETF_DF = [svc \in Services |-> ReadCsv(svc)]
    /\ MIN_DATE = [svc \in Services |-> SeqMin(DateColumn(ETF_DF[svc]))]
    /\ MAX_DATE = [svc \in Services |-> SeqMax(DateColumn(ETF_DF[svc]))]
    /\ request = NoRequest
    /\ result = NoResult
    /\ response = NoResponse
    /\ calls = <<>>

Next ==
    \/ get_final_portfolio_value
    \/ get_total_return
    \/ get_etf_comparison
    \/ calculate_all
    \/ get_candlestick_data
    \/ SendResponse

Spec == Init /\ [][Next]_vars

(***************************************************************************)
(* getPortfolioCorrelation.py / getPortoflioCorrelation.py: POST           *)
(* /api/get-close-price.  The two files differ in the tickers their        *)
(* ticker_file_map knows; they read the files of the candlestick service.  *)
(***************************************************************************)
CorrelationServices == {"PortfolioCorrelation", "PortoflioCorrelation"}

\* the keys of ticker_file_map
TickerFileMap(svc) ==
    IF svc = "PortfolioCorrelation" THEN SupportedTickerSet
    ELSE {"UPRO", "ARKK", "IWF", "QQQ"}

\* load_price_data_from_csv: the Close column indexed by Date, sorted by
\* date; ValueError for a ticker without a file
load_price_data_from_csv(svc, ticker) ==
    IF ticker \notin TickerFileMap(svc) THEN [raised |-> TRUE, series |-> <<>>]
    ELSE LET df == load_stock_data_from_csv(ticker)
         IN  [raised |-> FALSE,
              series |-> Eager([k \in 1..Len(df) |-> [Date |-> df[k].Date, Close |-> df[k].Close]])]

\* a correlation coefficient: its sign and its square (NaN when undefined)
Corr(sgn, sq) == [sgn |-> sgn, sq |-> sq]

\* Pearson normalised by the variance of x alone
PearsonBySourceVariance(x, y) ==
    LET both == {k \in 1..Len(x) : ~IsNaN(x[k]) /\ ~IsNaN(y[k])}
        n    == Cardinality(both)
        xs   == Eager([i \in 1..n |-> x[SortedSeq(both)[i]].n])
        ys   == Eager([i \in 1..n |-> y[SortedSeq(both)[i]].n])
        sx   == SumInt(xs)
        sy   == SumInt(ys)
        ssqdx == n * SumInt([i \in 1..n |-> xs[i] * xs[i]]) - sx * sx
        ssqdy == n * SumInt([i \in 1..n |-> ys[i] * ys[i]]) - sy * sy
        covxy == n * SumInt([i \in 1..n |-> xs[i] * ys[i]]) - sx * sy
    IN  IF n = 0 \/ ssqdx * ssqdy = 0 THEN Corr(0, NaN)
        ELSE Corr(Sgn(covxy), Mk(covxy * covxy, ssqdx * ssqdx))

\* one cell of df.corr(method='pearson'): the coefficient over the rows where
\* both columns have a value; NaN without such a row or with a column that is
\* constant over them.  x and y hold integers, NaN marks a missing value.
Pearson(x, y) ==
    LET both == {k \in 1..Len(x) : ~IsNaN(x[k]) /\ ~IsNaN(y[k])}
        n    == Cardinality(both)
        xs   == Eager([i \in 1..n |-> x[SortedSeq(both)[i]].n])
        ys   == Eager([i \in 1..n |-> y[SortedSeq(both)[i]].n])
        sx   == SumInt(xs)
        sy   == SumInt(ys)
        ssqdx == n * SumInt([i \in 1..n |-> xs[i] * xs[i]]) - sx * sx
        ssqdy == n * SumInt([i \in 1..n |-> ys[i] * ys[i]]) - sy * sy
        covxy == n * SumInt([i \in 1..n |-> xs[i] * ys[i]]) - sx * sy
    IN  IF n = 0 \/ ssqdx * ssqdy = 0 THEN Corr(0, NaN)
        ELSE Corr(Sgn(covxy), Mk(covxy * covxy, ssqdx * ssqdy))

\* FilteredSeries without "if not filtered.empty"
FilteredSeriesKeepEmpty(etf_data_frames, start_date, end_date) ==
    [t \in DOMAIN etf_data_frames |-> LocSlice(etf_data_frames[t], start_date, end_date)]

\* filtered_series: each loaded series cut to the range, the empty ones left out
FilteredSeries(etf_data_frames, start_date, end_date) ==
    [t \in {u \in DOMAIN etf_data_frames :
               Len(LocSlice(etf_data_frames[u], start_date, end_date)) > 0} |->
        LocSlice(etf_data_frames[t], start_date, end_date)]

\* the matrix built from filtered_series for the id list etfs: df.corr() of
\* the series aligned on the union of their dates when two or more are left,
\* a row per source and a cell per target
CorrelationRows(filtered_series, etfs) ==
    LET index == SortedSeq(UNION {{filtered_series[t][k].Date : k \in 1..Len(filtered_series[t])} :
                                     t \in DOMAIN filtered_series})
        Column(t) == Eager([k \in 1..Len(index) |->
                         LET hit == SelectSeq(filtered_series[t], LAMBDA r : r.Date = index[k])
                         IN  IF Len(hit) = 0 THEN NaN ELSE R(hit[1].Close)])
        Identity(source, target) == IF source = target THEN Corr(1, R(1)) ELSE Corr(0, R(0))
        Cell(source, target) ==
            IF Cardinality(DOMAIN filtered_series) >= 2
            THEN IF source \notin DOMAIN filtered_series THEN Identity(source, target)
                 ELSE IF target \notin DOMAIN filtered_series THEN Identity(source, target)
                 ELSE LET correlation == Pearson(Column(source), Column(target))
                      IN  IF IsNaN(correlation.sq) THEN Corr(0, R(0)) ELSE correlation
            ELSE Identity(source, target)
    IN  Eager([i \in 1..Len(etfs) |->
            Eager([j \in 1..Len(etfs) |->
                [source |-> etfs[i], target |-> etfs[j],
                 correlation |-> Cell(etfs[i], etfs[j])]])])

\* calculate_correlation_matrix with its rows and columns taken from the
\* loaded series instead of etfs
calculate_correlation_matrix_loaded(etf_data_frames, etfs, start_date, end_date) ==
    CorrelationRows(FilteredSeries(etf_data_frames, start_date, end_date),
                    SetToSeq(DOMAIN etf_data_frames))

\* calculate_correlation_matrix(etf_data_frames, etfs, start_date, end_date)
calculate_correlation_matrix(etf_data_frames, etfs, start_date, end_date) ==
    CorrelationRows(FilteredSeries(etf_data_frames, start_date, end_date), etfs)

\* the 'tickers' lists of the requests: absent, empty, one id, an id without
\* a file, a repeated id, and lists of two to four ids
TickerLists ==
    {<<>>, <<"QQQ">>, <<"FOO">>, <<"SPLV", "VYM">>, <<"VYM", "FOO", "SPLV">>,
     <<"QQQ", "UPRO", "QQQ">>, <<"UPRO", "AGG", "USMV", "IWF">>, <<"USMV", "FOO", "UPRO">>}

CorrelationRequests ==
    [service : CorrelationServices, has_body : {TRUE},
     start_date : DateInputs, end_date : DateInputs,
     tickers : {[present |-> FALSE, list |-> <<>>]}
               \cup {[present |-> TRUE, list |-> l] : l \in TickerLists}]
    \cup {[service |-> svc, has_body |-> FALSE, start_date |-> NoneDate,
           end_date |-> NoneDate, tickers |-> [present |-> FALSE, list |-> <<>>]] :
             svc \in CorrelationServices}

\* POST /api/get-close-price
get_close_prices ==
    /\ request = NoRequest
    /\ \E req \in CorrelationRequests :
        /\ request' = req
        /\ UNCHANGED <<ETF_DF, MIN_DATE, MAX_DATE>>
        /\ IF ~req.has_body \/ req.start_date.kind = "bad" \/ req.end_date.kind = "bad"
           THEN \* get_json() or pd.to_datetime raises: the outer except answers
                /\ result' = NoResult
                /\ response' = Raised("get-close-price", "Exception")
                /\ calls' = <<>>
           ELSE IF req.start_date.kind = "none" \/ req.end_date.kind = "none"
           THEN /\ result' = NoResult
                /\ response' = [endpoint |-> "get-close-price", status |-> 400,
                                error |-> "Missing date parameters"]
                /\ calls' = <<>>
           ELSE LET etfs == IF req.tickers.present THEN req.tickers.list
                            ELSE <<"ARKK", "IWF", "QQQ", "UPRO">>
                    start_date == req.start_date.day
                    end_date   == req.end_date.day
                    loaded == {etfs[i] : i \in {k \in 1..Len(etfs) :
                                  ~load_price_data_from_csv(req.service, etfs[k]).raised}}
                    etf_data_frames ==
                        [t \in loaded |-> load_price_data_from_csv(req.service, t).series]
                    with_rows == {t \in loaded :
                                     Len(LocSlice(etf_data_frames[t], start_date, end_date)) > 0}
                IN  \E matrix \in {calculate_correlation_matrix(etf_data_frames, etfs,
                                                                start_date, end_date)} :
                    /\ result' = [ok |-> TRUE, etfs |-> etfs,
                                  etf_data_frames |-> etf_data_frames,
                                  start_date |-> start_date, end_date |-> end_date]
                    /\ response' = [endpoint |-> "get-close-price", status |-> 200,
                                    error |-> "",
                                    prices |-> [t \in with_rows |->
                                                   LocSlice(etf_data_frames[t], start_date, end_date)],
                                    start_date |-> start_date,
                                    end_date |-> end_date,
                                    correlation_matrix |-> matrix]
                    /\ calls' = <<Call("calculate_correlation_matrix", Len(etfs))>>

CorrelationNext ==
    \/ get_close_prices
    \/ SendResponse

CorrelationSpec == Init /\ [][CorrelationNext]_vars

(***************************************************************************)
(* The tier table alone: an annualized volatility is drawn and the three   *)
(* copies of the table classify it.                                        *)
(***************************************************************************)
\* volatilities k/1000 up to MaxPerMille/1000, NaN and +inf
MaxPerMille == 250

VolatilityInputs ==
    {[service |-> "risk_level", per_mille |-> k, volatility |-> Mk(k, 1000)] : k \in 0..MaxPerMille}
        \cup {[service |-> "risk_level", per_mille |-> -1, volatility |-> x] : x \in {NaN, PosInf}}

RiskInit ==
    /\ ETF_DF = [svc \in Services |-> ReadCsv(svc)]
    /\ MIN_DATE = [svc \in Services |-> SeqMin(DateColumn(ETF_DF[svc]))]
    /\ MAX_DATE = [svc \in Services |-> SeqMax(DateColumn(ETF_DF[svc]))]
    /\ request \in VolatilityInputs
    /\ result = NoResult
    /\ response = NoResponse
    /\ calls = <<>>

\* the if/elif chain of calculate_risk_metrics in each of the three files
ClassifyVolatility ==
    /\ response = NoResponse
    /\ response' = [endpoint |-> "risk_level", status |-> 200, error |-> "",
                    risk_level |-> [impl \in {"HighLT", "LowLT", "dashboard"} |->
                                       RiskLevel(impl, VolatilityOf(request.volatility))]]
    /\ UNCHANGED <<ETF_DF, MIN_DATE, MAX_DATE, request, result, calls>>

RiskNext == ClassifyVolatility

RiskSpec == RiskInit /\ [][RiskNext]_vars

\* the metric endpoints of the two services and the dashboard's callback
MetricsNext ==
    \/ get_max_drawdown
    \/ get_risk_level
    \/ get_portfolio_growth
    \/ get_drawdown_analysis
    \/ get_yearly_returns
    \/ update_results
    \/ SendResponse

MetricsSpec == Init /\ [][MetricsNext]_vars

\* every endpoint built on process_request_data
PortfolioNext ==
    \/ get_final_portfolio_value
    \/ get_total_return
    \/ get_max_drawdown
    \/ get_risk_level
    \/ get_portfolio_growth
    \/ get_drawdown_analysis
    \/ get_etf_comparison
    \/ get_yearly_returns
    \/ calculate_all
    \/ SendResponse

PortfolioSpec == Init /\ [][PortfolioNext]_vars

(***************************************************************************)
(* Properties.                                                             *)
(***************************************************************************)
PortfolioAccepted == request.service \in Services /\ result.ok

CandlePortfolioAccepted == request.service = "Candlestick" /\ result.ok

ReqAllocations ==
    IF request.allocations.present THEN request.allocations.dict
    ELSE DefaultAllocations(request.service)

ReqInvestment ==
    IF request.initial_investment.present THEN request.initial_investment.value
    ELSE R(DefaultInvestment)

TableDates(svc) == {ETF_DF[svc][k].Date : k \in 1..Len(ETF_DF[svc])}

TablePrice(svc, e, d) == SelectSeq(ETF_DF[svc], LAMBDA r : r.Date = d)[1].px[e]

Weight(e) == RDiv(DictGet(ReqAllocations, e, R(0)), R(100))

InRangeDates == {d \in TableDates(request.service) : result.start_date <= d /\ d <= result.end_date}

FirstInRangeDate == CHOOSE d \in InRangeDates : \A x \in InRangeDates : d <= x

ExpectedTotal(d, first) ==
    SumSeq(Eager([i \in 1..4 |->
        LET e == ETFS(request.service)[i]
        IN  RMul(RMul(ReqInvestment, Weight(e)),
                 Mk(TablePrice(request.service, e, d), TablePrice(request.service, e, first))) ]))

HasCalled(fn) == \E k \in 1..Len(calls) : calls[k].fn = fn

\* C1: for every in-range date t the series holds a row whose total_value is
\* the sum over the four instruments of initial_investment * weight[i] *
\* price[i][t] / price[i][first in-range date], weight[i] = allocations[i]/100;
\* with one instrument at 100 and the others at 0 it is
\* initial_investment * price[t] / price[first in-range date].
C1_TotalValueFormula ==
    PortfolioAccepted =>
        LET df == result.portfolio_df
            first == FirstInRangeDate
            svc == request.service
        IN  /\ {df[t].Date : t \in 1..Len(df)} = InRangeDates
            /\ \A t \in 1..Len(df) : df[t].total_value = ExpectedTotal(df[t].Date, first)
            /\ \A e \in ETFSet(svc) :
                  ( /\ Weight(e) = R(1)
                    /\ \A o \in ETFSet(svc) \ {e} : Weight(o) = R(0) )
                  => \A t \in 1..Len(df) :
                         df[t].total_value =
                             RMul(ReqInvestment,
                                  Mk(TablePrice(svc, e, df[t].Date), TablePrice(svc, e, first)))

C1_Witness ==
    /\ PortfolioAccepted
    /\ Len(result.portfolio_df) >= 2
    /\ result.portfolio_df[1].Date > MIN_DATE[request.service]
    /\ \A e \in ETFSet(request.service) : Weight(e) # R(0)
    /\ result.portfolio_df[2].total_value # result.portfolio_df[1].total_value

\* C2: in every series of an accepted request, for every row t:
\* drawdown[t] <= 0, peak_value[t] >= total_value[t], peak_value[t] >= peak_value[t-1].
C2_DrawdownNonPositive ==
    PortfolioAccepted =>
        LET df == result.portfolio_df
        IN  \A t \in 1..Len(df) :
                /\ RLe(df[t].drawdown, R(0))
                /\ RLe(df[t].total_value, df[t].peak_value)
                /\ t > 1 => RLe(df[t - 1].peak_value, df[t].peak_value)

\* C3: every accepted allocation set is rescaled to sum to 1, so the total
\* value on the first in-range date equals initial_investment (percentage
\* path of HighLT/LowLT, fraction path of the candlestick portfolio).
C3_FirstValueIsInvestment ==
    /\ PortfolioAccepted => result.portfolio_df[1].total_value = result.initial_investment
    /\ CandlePortfolioAccepted =>
           response.candlestick_data[1].close = result.initial_investment

AllocationError == "Total allocation must be 100%"

WeightsError == "Weights should sum to 1"

\* the request gets as far as the allocation check of its handler
ReachesAllocationCheck == request.service \in Services /\ request.has_body

ReachesWeightsCheck ==
    /\ request.service = "Candlestick"
    /\ request.has_body
    /\ request.ticker = "portfolio"
    /\ request.start_date.kind = "iso"
    /\ request.end_date.kind = "iso"
    /\ request.tickers.present
    /\ DOMAIN request.tickers.dict \subseteq SupportedTickerSet

\* C4: at every valuation call site a sum within 1% of the declared total
\* (100 or 1) is accepted and a sum deviating by more than 1% is rejected
\* with the invalid-allocation error.
C4_OnePercentTolerance ==
    /\ ReachesAllocationCheck =>
        LET dev == RAbs(RSub(SumValues(ReqAllocations), R(100)))
        IN  /\ RLe(dev, R(1)) => response.error # AllocationError
            /\ RLt(R(1), dev) => response.error = AllocationError
    /\ ReachesWeightsCheck =>
        LET dev == RAbs(RSub(SumValues(request.tickers.dict), R(1)))
        IN  /\ RLe(dev, Mk(1, 100)) => response.error # WeightsError
            /\ RLt(Mk(1, 100), dev) => response.error = WeightsError

\* C5: a request whose allocations name an identifier that is not in the
\* reference data is rejected before any series computation starts and never
\* reaches calculate_portfolio_value.
C5_UnsupportedRejected ==
    /\ ( /\ ReachesAllocationCheck
         /\ \E k \in DOMAIN ReqAllocations : k \notin ETFSet(request.service) )
       => /\ response.status # 200
          /\ ~result.ok
          /\ ~HasCalled("calculate_portfolio_value")
    /\ ( /\ request.service = "Candlestick" /\ request.has_body
         /\ request.ticker = "portfolio" /\ request.tickers.present
         /\ \E k \in DOMAIN request.tickers.dict : k \notin SupportedTickerSet )
       => /\ response.status # 200
          /\ ~result.ok

\* C6: an allocation set with a negative weight is rejected with the
\* invalid-allocation error, even when the weights sum to the declared total.
C6_NegativeRejected ==
    /\ ( /\ ReachesAllocationCheck
         /\ \E k \in DOMAIN ReqAllocations : RLt(ReqAllocations[k], R(0)) )
       => response.error = AllocationError
    /\ ( /\ ReachesWeightsCheck
         /\ \E k \in DOMAIN request.tickers.dict : RLt(request.tickers.dict[k], R(0)) )
       => response.error = WeightsError

\* HighLT answered a request with two parsed bounds and ran its date filter
HighLTFiltered ==
    /\ request.service = "HighLT"
    /\ calls # <<>>
    /\ request.start_date.kind = "iso"
    /\ request.end_date.kind = "iso"

ReturnedDates ==
    IF result.ok THEN {result.portfolio_df[t].Date : t \in 1..Len(result.portfolio_df)} ELSE {}

ReqLo == IF request.start_date.day <= request.end_date.day
         THEN request.start_date.day ELSE request.end_date.day

ReqHi == IF request.start_date.day <= request.end_date.day
         THEN request.end_date.day ELSE request.start_date.day

\* C7 as stated: HighLT filter_data_by_date returns exactly the rows whose
\* date d satisfies min(start, end) <= d <= max(start, end), for bounds in
\* either order, inside or outside [MIN_DATE, MAX_DATE].
C7_ExactRequestedRange ==
    HighLTFiltered =>
        /\ calls[1].rows = Cardinality(ReturnedDates)
        /\ ReturnedDates = {d \in TableDates("HighLT") : ReqLo <= d /\ d <= ReqHi}

\* C7 amended: the rows returned are those with min(start, end) <= d <=
\* max(start, end), except that a range lying entirely before MIN_DATE
\* returns the MIN_DATE row and a range lying entirely after MAX_DATE
\* returns the MAX_DATE row; no pair of parsed bounds is rejected by the filter.
C7_ClampedRange ==
    HighLTFiltered =>
        /\ calls[1].rows = Cardinality(ReturnedDates)
        /\ ReturnedDates =
              IF ReqHi < MIN_DATE["HighLT"] THEN {MIN_DATE["HighLT"]}
              ELSE IF ReqLo > MAX_DATE["HighLT"] THEN {MAX_DATE["HighLT"]}
              ELSE {d \in TableDates("HighLT") : ReqLo <= d /\ d <= ReqHi}

C7_Witness ==
    /\ HighLTFiltered
    /\ request.start_date.day > request.end_date.day
    /\ request.end_date.day < MIN_DATE["HighLT"]
    /\ result.ok
    /\ Len(result.portfolio_df) >= 2

\* C8: when date filtering yields zero rows the answer is the "No data
\* available for the specified date range" error, and calculate_portfolio_value,
\* calculate_risk_metrics and calculate_etf_performance never run on an
\* empty table.
C8_EmptyRangeRejected ==
    request.service \in Services =>
        /\ \A k \in 1..Len(calls) :
              calls[k].fn # "filter_data_by_date" => calls[k].rows > 0
        /\ (\E k \in 1..Len(calls) : calls[k].fn = "filter_data_by_date" /\ calls[k].rows = 0)
           => /\ response.status = 400
              /\ response.error = "No data available for the specified date range"
              /\ ~result.ok
              /\ Len(calls) = 1

C8_Witness ==
    /\ request.service \in Services
    /\ calls = <<Call("filter_data_by_date", 0)>>
    /\ response.error = "No data available for the specified date range"
    /\ request.start_date.kind = "iso"
    /\ request.start_date.day > MIN_DATE[request.service]
    /\ request.end_date.kind = "iso"
    /\ request.end_date.day < MAX_DATE[request.service]

\* C9: every candlestick returned has start_date <= date <= end_date; no row
\* dated after end_date is returned, in the single-ticker and the portfolio branch.
C9_EndDateInclusiveOnly ==
    (request.service = "Candlestick" /\ response.status = 200) =>
        \A k \in 1..Len(response.candlestick_data) :
            /\ request.start_date.day <= response.candlestick_data[k].date
            /\ response.candlestick_data[k].date <= request.end_date.day

\* C10: in the candlestick portfolio branch every requested instrument has a
\* defined baseline price, its close on the first date of the assembled
\* table, and the first day's portfolio close is initial_investment * (sum
\* of the weights), also when the instruments' first in-range dates differ.
C10_BaselineDefined ==
    CandlePortfolioAccepted =>
        /\ \A t \in DOMAIN result.tickers_dict : IsFinite(result.first_day_prices[t])
        /\ response.candlestick_data[1].close =
               RMul(result.initial_investment, SumValues(result.tickers_dict))

\* the rows of the series whose date lies in calendar year y
RowsOfYear(df, y) == SelectSeq(df, LAMBDA r : YearOf(r.Date) = y)

\* C11: yearly returns are grouped by the calendar year of the rows' dates,
\* one entry per year in increasing order; a year with at least two in-range
\* rows reports last total_value / first total_value - 1 over that year's
\* rows, a year with exactly one in-range row reports 0; the yearly-returns
\* endpoint reports these values.
C11_YearlyReturns ==
    PortfolioAccepted =>
        LET df == result.portfolio_df
            yr == result.yearly_returns
        IN  /\ {yr[k].year : k \in 1..Len(yr)} = {YearOf(df[t].Date) : t \in 1..Len(df)}
            /\ \A k \in 1..(Len(yr) - 1) : yr[k].year < yr[k + 1].year
            /\ \A k \in 1..Len(yr) :
                  LET x == RowsOfYear(df, yr[k].year)
                  IN  /\ Len(x) >= 2 =>
                            yr[k].yearly_return =
                                RSub(RDiv(x[Len(x)].total_value, x[1].total_value), R(1))
                      /\ Len(x) = 1 => yr[k].yearly_return = R(0)
            /\ (response.endpoint = "yearly-returns" /\ response.status = 200) =>
                  /\ Len(response.yearly_returns) = Len(yr)
                  /\ \A k \in 1..Len(yr) :
                        /\ response.yearly_returns[k].year = yr[k].year
                        /\ response.yearly_returns[k].yearly_return = yr[k].yearly_return

C11_Witness ==
    /\ PortfolioAccepted
    /\ response.endpoint = "yearly-returns"
    /\ response.status = 200
    /\ Len(result.yearly_returns) = 2
    /\ Len(RowsOfYear(result.portfolio_df, result.yearly_returns[1].year)) = 2
    /\ Len(RowsOfYear(result.portfolio_df, result.yearly_returns[2].year)) = 1
    /\ RLt(R(0), result.yearly_returns[1].yearly_return)
    /\ response.yearly_returns[2].yearly_return = R(0)

\* a series of one or two rows was handed to calculate_risk_metrics
ShortSeriesMetrics ==
    /\ request.service \in Services \cup {"dashboard"}
    /\ response.status = 200
    /\ response.endpoint \in {"risk-level", "update_results"}
    /\ Len(result.portfolio_df) <= 2

C13_RiskTiers ==
    (request.service = "risk_level" /\ response.status = 200) =>
        LET k == request.per_mille
            tier == IF k < 0 THEN "Very High"
                    ELSE IF k < 50 THEN "Very Low"
                    ELSE IF k < 100 THEN "Low"
                    ELSE IF k < 150 THEN "Moderate"
                    ELSE IF k < 200 THEN "High"
                    ELSE "Very High"
        IN  \A impl \in {"HighLT", "LowLT", "dashboard"} : response.risk_level[impl] = tier

C13_Witness ==
    /\ request.service = "risk_level"
    /\ response.status = 200
    /\ request.volatility = Mk(5, 100)
    /\ response.risk_level["HighLT"] = "Low"
    /\ response.risk_level["dashboard"] = "Low"

\* C14: max_drawdown, as reported by calculate_risk_metrics (through
\* /api/risk-level) and by /api/max-drawdown, is the minimum of the drawdown
\* series, and is exactly 0 whenever total_value never decreases over the
\* period, a one-row series included.
C14_MaxDrawdownZero ==
    (request.service \in Services /\ result.ok
        /\ response.endpoint \in {"risk-level", "max-drawdown"}) =>
        LET df == result.portfolio_df
            never_decreases ==
                \A t \in 2..Len(df) : ~RLt(df[t].total_value, df[t - 1].total_value)
            reported == IF response.endpoint = "risk-level"
                        THEN response.metrics.max_drawdown
                        ELSE response.max_drawdown
        IN  /\ response.status = 200 => reported = SeqRMin(DrawdownColumn(df))
            /\ never_decreases => response.status = 200 /\ reported = R(0)

\* the floating-point fields of the JSON body of a successful response
ReportedNumbers ==
    LET r == response
        e == r.endpoint
        Cells(rows, keys) == UNION {{rows[i][k] : k \in keys} : i \in DOMAIN rows}
    IN  IF e = "portfolio-value"
        THEN {r.initial_value, r.final_value, r.growth_amount, r.growth_percentage}
        ELSE IF e = "total-return"
        THEN {r.total_return, r.annualized_return, r.sharpe_ratio}
        ELSE IF e = "max-drawdown"
        THEN {r.max_drawdown, r.max_drawdown_percentage}
        ELSE IF e = "risk-level"
        THEN {r.metrics[k] : k \in MetricFloats}
        ELSE IF e = "portfolio-growth"
        THEN Cells(r.portfolio_growth,
                   {"total_value", "cumulative_return", "cumulative_return_percentage"})
        ELSE IF e = "drawdown-analysis"
        THEN {r.max_drawdown}
                 \cup Cells(r.drawdown_data,
                            {"total_value", "peak_value", "drawdown", "drawdown_percentage"})
                 \cup Cells(r.drawdown_periods, {"max_drawdown"})
        ELSE IF e = "etf-comparison"
        THEN Cells(r.etf_performance,
                   {"first_price", "last_price", "total_return", "volatility"})
        ELSE IF e = "yearly-returns"
        THEN {r.avg_yearly_return, r.avg_yearly_return_percentage, r.best_return,
              r.best_return_percentage, r.worst_return, r.worst_return_percentage}
                 \cup Cells(r.yearly_returns, {"yearly_return", "yearly_return_percentage"})
        ELSE IF e = "calculate-all" /\ r.metrics # <<>>
        THEN {r.metrics[k] : k \in MetricFloats}
                 \cup Cells(r.etf_performance,
                            {"first_price", "last_price", "total_return", "volatility"})
                 \cup Cells(r.portfolio_data,
                            {"total_value", "daily_return", "cumulative_return",
                             "peak_value", "drawdown"})
                 \cup Cells(r.yearly_returns, {"yearly_return"})
        ELSE {}

\* C15: in every successful response of every portfolio endpoint
\* (portfolio-value, total-return, max-drawdown, risk-level,
\* portfolio-growth, drawdown-analysis, etf-comparison, yearly-returns,
\* calculate-all) every numeric field is finite or an explicit null, for
\* every request that passes validation.
C15_NoNaNReported ==
    (request.service \in Services /\ result.ok /\ response.status = 200) =>
        \A x \in ReportedNumbers : IsNull(x) \/ IsFinite(x)

\* C16: when the filtered series has 0 or 1 rows the request fails with an
\* error instead of returning metrics, for calculate-all, portfolio-value,
\* total-return, risk-level, max-drawdown and yearly-returns of HighLT and
\* LowLT.
C16_DegenerateSeriesFails ==
    (request.service \in Services
        /\ response.endpoint \in {"calculate-all", "portfolio-value", "total-return",
                                  "risk-level", "max-drawdown", "yearly-returns"}
        /\ (~result.ok \/ Len(result.portfolio_df) <= 1)) =>
        response.status # 200 /\ response.error # ""

\* a correlation request was answered with a matrix
MatrixReturned == request.service \in CorrelationServices /\ response.status = 200

\* the requested ids that have a file with at least one row in the range
IdsWithData ==
    {result.etfs[i] : i \in {k \in 1..Len(result.etfs) :
        /\ result.etfs[k] \in TickerFileMap(request.service)
        /\ \E d \in TickerDays(TickerIndex(result.etfs[k])) :
               d >= result.start_date /\ d <= result.end_date}}

\* C17: every diagonal cell (source == target) of the matrix returned by
\* calculate_correlation_matrix is exactly 1.0, for every id list, date
\* range and set of loaded series, including an instrument whose in-range
\* prices are constant or a single row.
C17_DiagonalOne ==
    MatrixReturned =>
        \A i \in 1..Len(response.correlation_matrix) :
            response.correlation_matrix[i][i].correlation = Corr(1, R(1))

\* C18: the matrix is symmetric: cell (i, j) and cell (j, i) hold the same
\* correlation, also when some requested ids were dropped from the
\* computation (no data, load failure) while others were computed.
C18_Symmetric ==
    MatrixReturned =>
        LET matrix == response.correlation_matrix
        IN  \A i \in 1..Len(matrix) : \A j \in 1..Len(matrix) :
                matrix[i][j].correlation = matrix[j][i].correlation

C18_Witness ==
    /\ MatrixReturned
    /\ Cardinality(IdsWithData) >= 2
    /\ \E i \in 1..Len(result.etfs) : result.etfs[i] \notin IdsWithData
    /\ \E i, j \in 1..Len(result.etfs) :
        /\ i # j
        /\ response.correlation_matrix[i][j].correlation.sgn # 0
        /\ response.correlation_matrix[i][j].correlation.sq # R(1)

\* C19: the matrix is len(ids) x len(ids) and follows the caller's id list:
\* every cell of row i has source ids[i] and cell (i, j) has target ids[j],
\* whichever ids had no data.
C19_FollowsIdList ==
    MatrixReturned =>
        LET matrix == response.correlation_matrix
            ids == IF request.tickers.present THEN request.tickers.list
                   ELSE <<"ARKK", "IWF", "QQQ", "UPRO">>
        IN  /\ Len(matrix) = Len(ids)
            /\ \A i \in 1..Len(ids) :
                /\ Len(matrix[i]) = Len(ids)
                /\ \A j \in 1..Len(ids) :
                       matrix[i][j].source = ids[i] /\ matrix[i][j].target = ids[j]

C19_Witness ==
    /\ MatrixReturned
    /\ request.tickers.present
    /\ request.tickers.list = <<"VYM", "FOO", "SPLV">>
    /\ Cardinality(IdsWithData) = 2
    /\ response.correlation_matrix[3][1].source = "SPLV"
    /\ response.correlation_matrix[3][1].target = "VYM"

\* C20: when fewer than two requested instruments have rows in the range (a
\* single id, ids without a file, a range without rows) the correlation
\* request does not fail and returns the identity-like matrix over the whole
\* id list: 1.0 where source == target and 0.0 elsewhere.
C20_IdentityWhenFewerThanTwo ==
    (request.service \in CorrelationServices /\ request.has_body
        /\ request.start_date.kind = "iso" /\ request.end_date.kind = "iso") =>
        /\ response.status = 200
        /\ Cardinality(IdsWithData) < 2 =>
            LET matrix == response.correlation_matrix
            IN  /\ Len(matrix) = Len(result.etfs)
                /\ \A i, j \in 1..Len(matrix) :
                       matrix[i][j].correlation =
                           IF matrix[i][j].source = matrix[i][j].target
                           THEN Corr(1, R(1)) ELSE Corr(0, R(0))

C20_Witness ==
    /\ MatrixReturned
    /\ Len(result.etfs) = 3
    /\ Cardinality(IdsWithData) = 1
    /\ request.service = "PortfolioCorrelation"
    /\ \E i \in 1..3 : result.etfs[i] \notin TickerFileMap(request.service)
    /\ \E i \in 1..3 : /\ result.etfs[i] \in TickerFileMap(request.service)
                        /\ result.etfs[i] \notin IdsWithData
    /\ response.correlation_matrix[1][1].correlation = Corr(1, R(1))
    /\ response.correlation_matrix[1][3].correlation = Corr(0, R(0))

(***************************************************************************)
(* Concurrent requests to one portfolio service process (one worker thread *)
(* per request).  Each worker runs the statements of an endpoint in three  *)
(* steps: the request is received, filter_data_by_date copies the rows in  *)
(* range out of ETF_DF, calculate_portfolio_value adds its columns to that *)
(* copy and the response is built.  request, result and response hold one  *)
(* entry per worker; result[w] is the worker's local variables.            *)
(***************************************************************************)
Workers == {1, 2}

\* one module-level slot for the tables of every request
FrameShared(w) == 1

\* the local variables of the call running in worker w
Frame(w) == w

EmptyFrame == [period_df |-> <<>>, portfolio_df |-> <<>>, yearly_returns |-> <<>>]

WorkerRequests ==
    UNION {[service : {svc}, has_body : {TRUE}, initial_investment : {Absent},
            allocations : {[present |-> FALSE, dict |-> <<>>],
                           [present |-> TRUE, dict |-> [x \in {ETFS(svc)[1]} |-> R(100)]]},
            start_date : {NoneDate, IsoDate(0), IsoDate(2)},
            end_date : {NoneDate, IsoDate(2), IsoDate(MaxDay)},
            pc : {"received"}] : svc \in Services}

ConcurrentInit ==
    /\ ETF_DF = [svc \in Services |-> ReadCsv(svc)]
    /\ MIN_DATE = [svc \in Services |-> SeqMin(DateColumn(ETF_DF[svc]))]
    /\ MAX_DATE = [svc \in Services |-> SeqMax(DateColumn(ETF_DF[svc]))]
    /\ request = [w \in Workers |-> NoRequest]
    /\ result = [w \in Workers |-> EmptyFrame]
    /\ response = [w \in Workers |-> NoResponse]
    /\ calls = <<>>

\* data = request.get_json() in a free worker
Receive(w) ==
    /\ request[w] = NoRequest
    /\ \E req \in WorkerRequests : request' = [request EXCEPT ![w] = req]
    /\ UNCHANGED <<ETF_DF, MIN_DATE, MAX_DATE, result, response, calls>>

\* period_df, start_date, end_date = filter_data_by_date(...)
FilterStep(w) ==
    /\ request[w] # NoRequest
    /\ request[w].pc = "received"
    /\ LET req == request[w]
           svc == req.service
           f == filter_data_by_date(svc, ETF_DF[svc], MIN_DATE[svc], MAX_DATE[svc],
                                    req.start_date, req.end_date)
       IN  /\ result' = [result EXCEPT ![Frame(w)] = [@ EXCEPT !.period_df = f.period_df]]
           /\ calls' = <<Call("filter_data_by_date", Len(f.period_df))>>
           /\ IF EmptyPeriod(f.period_df)
              THEN /\ request' = [request EXCEPT ![w].pc = "responded"]
                   /\ response' = [response EXCEPT ![w] =
                          [endpoint |-> "portfolio-value", status |-> 400,
                           error |-> "No data available for the specified date range"]]
              ELSE /\ request' = [request EXCEPT ![w].pc = "filtered"]
                   /\ UNCHANGED response
    /\ UNCHANGED <<ETF_DF, MIN_DATE, MAX_DATE>>

\* portfolio_df, yearly_returns = calculate_portfolio_value(period_df, ...)
\* and the response of /api/portfolio-value
CalculateStep(w) ==
    /\ request[w] # NoRequest
    /\ request[w].pc = "filtered"
    /\ LET req == request[w]
           svc == req.service
           allocations == IF req.allocations.present THEN req.allocations.dict
                          ELSE DefaultAllocations(svc)
       IN  \E pv \in {calculate_portfolio_value(svc, result[Frame(w)].period_df,
                                                R(DefaultInvestment), allocations)} :
           /\ result' = [result EXCEPT ![Frame(w)] =
                            [@ EXCEPT !.portfolio_df = pv.portfolio_df,
                                      !.yearly_returns = pv.yearly_returns]]
           /\ response' = [response EXCEPT ![w] =
                  [endpoint |-> "portfolio-value", status |-> 200, error |-> "",
                   initial_value |-> IF Len(pv.portfolio_df) = 0 THEN NaN
                                     ELSE pv.portfolio_df[1].total_value,
                   final_value |-> IF Len(pv.portfolio_df) = 0 THEN NaN
                                   ELSE pv.portfolio_df[Len(pv.portfolio_df)].total_value]]
           /\ calls' = <<Call("calculate_portfolio_value", Len(pv.portfolio_df))>>
    /\ request' = [request EXCEPT ![w].pc = "responded"]
    /\ UNCHANGED <<ETF_DF, MIN_DATE, MAX_DATE>>

\* the response is sent; the call returns and its local variables are gone
SendStep(w) ==
    /\ request[w] # NoRequest
    /\ request[w].pc = "responded"
    /\ request' = [request EXCEPT ![w] = NoRequest]
    /\ result' = [result EXCEPT ![Frame(w)] = EmptyFrame]
    /\ response' = [response EXCEPT ![w] = NoResponse]
    /\ calls' = <<>>
    /\ UNCHANGED <<ETF_DF, MIN_DATE, MAX_DATE>>

ConcurrentNext ==
    \E w \in Workers :
        \/ Receive(w)
        \/ FilterStep(w)
        \/ CalculateStep(w)
        \/ SendStep(w)

ConcurrentSpec == ConcurrentInit /\ [][ConcurrentNext]_vars

\* C21: after load_data no request, in any interleaving of concurrent
\* requests, changes ETF_DF, MIN_DATE or MAX_DATE, and every per-request
\* table (period_df, portfolio_df, yearly_returns) is a fresh copy no other
\* request observes: each worker holds exactly the tables its own request
\* gives when it runs alone.
C21_NoSharedMutation ==
    /\ ETF_DF = [svc \in Services |-> ReadCsv(svc)]
    /\ MIN_DATE = [svc \in Services |-> SeqMin(DateColumn(ETF_DF[svc]))]
    /\ MAX_DATE = [svc \in Services |-> SeqMax(DateColumn(ETF_DF[svc]))]
    /\ \A w \in Workers :
        (request[w] # NoRequest /\ request[w].pc \in {"filtered", "responded"}) =>
            LET req == request[w]
                svc == req.service
                alone == process_request_data(svc, req, ReadCsv(svc), SeqMin(DateColumn(ReadCsv(svc))),
                                              SeqMax(DateColumn(ReadCsv(svc))))
            IN  IF response[w].status = 200
                THEN /\ alone.ok
                     /\ result[w].portfolio_df = alone.portfolio_df
                     /\ result[w].yearly_returns = alone.yearly_returns
                ELSE IF response[w].status = 400
                THEN ~alone.ok /\ result[w].period_df = <<>>
                ELSE alone.ok /\ Len(result[w].period_df) = Len(alone.portfolio_df)
                              /\ \A t \in 1..Len(alone.portfolio_df) :
                                     result[w].period_df[t].Date = alone.portfolio_df[t].Date

C21_Witness ==
    /\ \A w \in Workers : request[w] # NoRequest
    /\ request[1].service = request[2].service
    /\ request[1].pc = "responded" /\ response[1].status = 200
    /\ request[2].pc = "filtered"
    /\ Len(result[2].period_df) # Len(result[1].portfolio_df)

\* C22: every computation is a deterministic function of its request and
\* the loaded data: two identical requests return identical responses,
\* including the open, high, low and close values of the candlestick
\* portfolio branch.  Were it so, every response to a portfolio request
\* would be the one response that request gets when np.random.random()
\* returns 0.0 at every call.
C22_Deterministic ==
    (request.service = "Candlestick" /\ response.status = 200
        /\ response.ticker = "portfolio") =>
        response.candlestick_data =
            PortfolioCandles(result.index, result.portfolio_value,
                             [k \in 1..Len(result.index) |-> <<R(0), R(0)>>],
                             Len(result.index))

(***************************************************************************)
(* The two weight conventions on one price table: the percentages of       *)
(* calculate_portfolio_value (HighLT, LowLT, dashboard) and the fractions  *)
(* of the candlestick portfolio branch.  A table, a range with rows, an    *)
(* investment and a percentage set are drawn; the three computations are   *)
(* applied to the same rows.                                               *)
(***************************************************************************)
\* percentages of the four instruments, each set summing to 100
PercentSets == {<<25, 25, 25, 25>>, <<100, 0, 0, 0>>, <<0, 50, 50, 0>>, <<10, 20, 30, 40>>,
                <<1, 0, 0, 99>>}

ConventionInputs ==
    [service : {"convention"}, table : Services,
     start_date : 1..MaxDay, end_date : 1..MaxDay,
     initial_investment : {R(10000), R(1), R(-1000)},
     percent : PercentSets]

ConventionInit ==
    /\ ETF_DF = [svc \in Services |-> ReadCsv(svc)]
    /\ MIN_DATE = [svc \in Services |-> SeqMin(DateColumn(ETF_DF[svc]))]
    /\ MAX_DATE = [svc \in Services |-> SeqMax(DateColumn(ETF_DF[svc]))]
    /\ request \in ConventionInputs
    /\ result = NoResult
    /\ response = NoResponse
    /\ calls = <<>>

ApplyConventions ==
    /\ response = NoResponse
    /\ LET svc == request.table
           period_df == LocSlice(ETF_DF[svc], request.start_date, request.end_date)
           allocations == [e \in ETFSet(svc) |->
                              R(request.percent[CHOOSE i \in 1..4 : ETFS(svc)[i] = e])]
           tickers_dict == [e \in ETFSet(svc) |-> RDiv(allocations[e], R(100))]
           all_data == [e \in ETFSet(svc) |->
                           Eager([t \in 1..Len(period_df) |->
                               [Date |-> period_df[t].Date, Close |-> period_df[t].px[e]]])]
       IN  IF Len(period_df) = 0
           THEN /\ response' = [endpoint |-> "convention", status |-> 400,
                                error |-> "No data available for the specified date range"]
                /\ result' = NoResult
           ELSE \E pct \in {calculate_portfolio_value(svc, period_df,
                                                     request.initial_investment, allocations)} :
                \E tab \in {PortfolioTable(tickers_dict, request.initial_investment, all_data)} :
                \E dash \in {dashboard_calculate_portfolio_value(
                                 ETF_DF["LowLT"], request.start_date, request.end_date,
                                 request.initial_investment,
                                 [e \in ETFSet("LowLT") |->
                                     R(request.percent[CHOOSE i \in 1..4 : ETFS("LowLT")[i] = e])])} :
                /\ result' = [ok |-> TRUE, portfolio_df |-> pct.portfolio_df,
                              allocations |-> allocations, tickers_dict |-> tickers_dict]
                /\ response' = [endpoint |-> "convention", status |-> 200, error |-> "",
                                percent |-> Eager([t \in 1..Len(period_df) |->
                                                pct.portfolio_df[t].total_value]),
                                fraction |-> tab.portfolio_value,
                                dashboard |-> Eager([t \in 1..Len(dash.portfolio_df) |->
                                                dash.portfolio_df[t].total_value])]
    /\ UNCHANGED <<ETF_DF, MIN_DATE, MAX_DATE, request, calls>>

ConventionNext == ApplyConventions

ConventionSpec == ConventionInit /\ [][ConventionNext]_vars

C24_MalformedDateFallsBack ==
    (request.service \in Services /\ request.has_body /\ ~request.allocations.present
        /\ ~request.initial_investment.present
        /\ (request.start_date.kind = "bad" \/ request.end_date.kind = "bad")) =>
        /\ response.error # "ValueError"
        /\ response.status # 500
        /\ (request.start_date.kind = "bad" /\ request.end_date.kind = "bad") =>
               /\ result.ok
               /\ result.start_date = MIN_DATE[request.service]
               /\ result.end_date = MAX_DATE[request.service]
               /\ Len(result.portfolio_df) = Len(ETF_DF[request.service])

\* C25: HighLT and LowLT filter_data_by_date are equivalent on rows: for
\* the same table and every pair of parseable bounds (start, end), including
\* start later than end and bounds outside the data, both return the same
\* rows.  The rows the answering service kept are compared with those the
\* other service's filter returns for the same table and bounds.
C25_FiltersEquivalent ==
    (request.service \in Services /\ request.has_body /\ ~request.allocations.present
        /\ request.start_date.kind = "iso" /\ request.end_date.kind = "iso") =>
        LET svc == request.service
            other == IF svc = "HighLT" THEN "LowLT" ELSE "HighLT"
            kept == IF result.ok
                    THEN Eager([t \in 1..Len(result.portfolio_df) |-> result.portfolio_df[t].Date])
                    ELSE <<>>
            f == filter_data_by_date(other, ETF_DF[svc], MIN_DATE[svc], MAX_DATE[svc],
                                     request.start_date, request.end_date)
        IN  kept = DateColumn(f.period_df)

(***************************************************************************)
(* /api/drawdown-analysis over tables of up to MaxRows rows: the price of  *)
(* the first instrument is drawn for every row, the whole table is         *)
(* requested with that instrument at 100%.                                 *)
(***************************************************************************)
MaxRows == 5

\* 95 is exactly 5% below 100 and 99 exactly 1% below
PriceLevels == {100, 99, 95, 94, 120}

PriceTable(svc, prices) ==
    Eager([d \in 1..Len(prices) |->
        [Date |-> d,
         px |-> [e \in ETFSet(svc) |-> IF e = ETFS(svc)[1] THEN prices[d] ELSE 4]]])

DrawdownInit ==
    /\ \E n \in 1..MaxRows : \E prices \in [1..n -> PriceLevels] :
           ETF_DF = [svc \in Services |-> PriceTable(svc, prices)]
    /\ MIN_DATE = [svc \in Services |-> SeqMin(DateColumn(ETF_DF[svc]))]
    /\ MAX_DATE = [svc \in Services |-> SeqMax(DateColumn(ETF_DF[svc]))]
    /\ request = NoRequest
    /\ result = NoResult
    /\ response = NoResponse
    /\ calls = <<>>

\* POST /api/drawdown-analysis without dates, the first instrument at 100%
AnalyseWholeTable ==
    /\ request = NoRequest
    /\ \E svc \in Services :
        DrawdownAnalysis(svc,
            [service |-> svc, has_body |-> TRUE, initial_investment |-> Absent,
             allocations |-> [present |-> TRUE, dict |-> [x \in {ETFS(svc)[1]} |-> R(100)]],
             start_date |-> NoneDate, end_date |-> NoneDate])

DrawdownNext ==
    \/ AnalyseWholeTable
    \/ SendResponse

DrawdownSpec == DrawdownInit /\ [][DrawdownNext]_vars

\* the row of drawdown_data dated d (0 when there is none)
RowOf(d) ==
    IF \E t \in 1..Len(response.drawdown_data) : response.drawdown_data[t].Date = d
    THEN CHOOSE t \in 1..Len(response.drawdown_data) : response.drawdown_data[t].Date = d
    ELSE 0

\* C26: the drawdown_periods of /api/drawdown-analysis are disjoint and
\* chronological: each period starts at the first row with drawdown < -0.05
\* seen while no period is open, ends at the first later row with drawdown
\* >= -0.01, no period starts before the previous one has ended, and its
\* max_drawdown is the minimum drawdown over the rows from its start to its
\* end inclusive (hence < -0.05).
C26_DrawdownPeriods ==
    (request.service \in Services /\ response.status = 200
        /\ response.endpoint = "drawdown-analysis") =>
        LET dd == [t \in 1..Len(response.drawdown_data) |-> response.drawdown_data[t].drawdown]
            periods == response.drawdown_periods
            s(i) == RowOf(periods[i].start_date)
            e(i) == RowOf(periods[i].end_date)
            prev(i) == IF i = 1 THEN 0 ELSE e(i - 1)
        IN  \A i \in 1..Len(periods) :
                /\ s(i) > 0 /\ s(i) < e(i) /\ prev(i) < s(i)
                /\ RLt(dd[s(i)], Mk(-5, 100))
                /\ \A t \in (prev(i) + 1)..(s(i) - 1) : ~RLt(dd[t], Mk(-5, 100))
                /\ RLe(Mk(-1, 100), dd[e(i)])
                /\ \A t \in (s(i) + 1)..(e(i) - 1) : ~RLe(Mk(-1, 100), dd[t])
                /\ \A t \in s(i)..e(i) : RLe(periods[i].max_drawdown, dd[t])
                /\ \E t \in s(i)..e(i) : periods[i].max_drawdown = dd[t]
                /\ RLt(periods[i].max_drawdown, Mk(-5, 100))

C26_Witness ==
    /\ request.service \in Services
    /\ response.status = 200
    /\ response.endpoint = "drawdown-analysis"
    /\ Len(response.drawdown_periods) = 2
    /\ response.drawdown_periods[1].end_date < response.drawdown_periods[2].start_date
    /\ response.drawdown_periods[2].max_drawdown = Mk(94 - 120, 120)

\* C27: a drawdown episode that has started (a row with drawdown < -0.05)
\* but does not recover to drawdown >= -0.01 before the last row appears in
\* no entry of drawdown_periods, although its rows count toward max_drawdown
\* and severe_drawdowns; severe_drawdowns can be positive while
\* drawdown_periods is empty.
C27_UnrecoveredEpisode ==
    (request.service \in Services /\ response.status = 200
        /\ response.endpoint = "drawdown-analysis") =>
        LET n == Len(response.drawdown_data)
            dd == [t \in 1..n |-> response.drawdown_data[t].drawdown]
            periods == response.drawdown_periods
            unrecovered == {t \in 1..n :
                               /\ RLt(dd[t], Mk(-5, 100))
                               /\ \A u \in (t + 1)..n : ~RLe(Mk(-1, 100), dd[u])}
        IN  /\ \A t \in unrecovered : \A i \in 1..Len(periods) :
                    ~(RowOf(periods[i].start_date) <= t /\ t <= RowOf(periods[i].end_date))
            /\ \A t \in 1..n : RLe(response.max_drawdown, dd[t])
            /\ \E t \in 1..n : response.max_drawdown = dd[t]
            /\ response.severe_drawdowns = Cardinality({t \in 1..n : RLt(dd[t], Mk(-1, 10))})

C27_Witness ==
    /\ request.service \in Services
    /\ response.status = 200
    /\ response.endpoint = "drawdown-analysis"
    /\ response.drawdown_periods = <<>>
    /\ response.severe_drawdowns > 0
    /\ RLt(response.drawdown_data[Len(response.drawdown_data)].drawdown, Mk(-1, 10))
    /\ response.max_drawdown = Mk(94 - 120, 120)

\* C28: on the dashboard, when the selected date range holds no row,
\* update_results returns "N/A" for its six text outputs and four empty
\* figures titled "No data available for selected date range"; it does not
\* raise.
C28_EmptyRangeAnswersNA ==
    (request.service = "dashboard"
        /\ \A t \in 1..Len(DashboardDf) :
               ~(/\ DashboardDf[t].Date >= min_date + request.date_range[1]
                 /\ DashboardDf[t].Date <= min_date + request.date_range[2])) =>
        /\ response.status = 200
        /\ response.error = ""

\* C29: the dashboard's calculate_portfolio_value is pure: after the call the
\* caller's allocations mapping holds the same values as before and the
\* global df is unchanged, for every allocation set including the ones that
\* do not sum to 100.
C29_AllocationsUntouched ==
    (request.service = "dashboard" /\ response.status = 200) =>
        /\ \A e \in DOMAIN request.allocations :
               result.allocations[e] = request.allocations[e]
        /\ ETF_DF["LowLT"] = DashboardDf

\* C30: the candles of the candlestick portfolio branch form a consistent
\* chain: the first candle opens at its close, every later candle opens at
\* the previous close, and in every candle low <= min(open, close) <=
\* max(open, close) <= high with high at most 1% above the max and low at
\* most 1% below the min, for positive portfolio values.
C30_CandleChain ==
    (request.service = "Candlestick" /\ response.status = 200
        /\ response.ticker = "portfolio"
        /\ \A k \in 1..Len(response.candlestick_data) :
               RLt(R(0), response.candlestick_data[k].close)) =>
        LET c == response.candlestick_data
        IN  \A k \in 1..Len(c) :
                LET lo == RMin(c[k].open, c[k].close)
                    hi == RMax(c[k].open, c[k].close)
                IN  /\ c[k].open = IF k = 1 THEN c[1].close ELSE c[k - 1].close
                    /\ RLe(c[k].low, lo) /\ RLe(lo, hi) /\ RLe(hi, c[k].high)
                    /\ RLe(c[k].high, RMul(hi, Mk(101, 100)))
                    /\ RLe(RMul(lo, Mk(99, 100)), c[k].low)

C30_Witness ==
    /\ request.service = "Candlestick"
    /\ response.status = 200
    /\ response.ticker = "portfolio"
    /\ Len(response.candlestick_data) >= 2
    /\ \A k \in 1..Len(response.candlestick_data) :
           RLt(R(0), response.candlestick_data[k].close)
    /\ \E k \in 2..Len(response.candlestick_data) :
           /\ RLt(response.candlestick_data[k].open, response.candlestick_data[k].close)
           /\ RLt(response.candlestick_data[k].close, response.candlestick_data[k].high)
           /\ RLt(response.candlestick_data[k].low, response.candlestick_data[k].open)

====
